---- MODULE Spec2Model ----
(***************************************************************************)
(* A model of pastecat's storage layer: the capacity controller (Stats),   *)
(* the file and mmap stores, the upload handler, the deletion scheduler    *)
(* and the recovery walk.                                                  *)
(***************************************************************************)
EXTENDS Integers, Sequences, FiniteSets, TLC

(***************************************************************************)
(* Bounds of the model.                                                    *)
(***************************************************************************)
\* Number of concurrent callers of Stats in SpecStats.
NumCallers == 2
\* Largest paste size (len(content)) drawn as an input.
MaxSize == 2
\* Largest value of a counter or a maximum drawn as a Stats input.
MaxCount == 3
\* Most reservations one caller holds at a time in SpecStats.
MaxHeld == 1
\* Number of paste IDs the random source draws from.
NumIDs == 2
\* Number of concurrent uploads (POST requests in flight).
NumWorkers == 1
\* Most deletion timers alive at a time.
MaxTasks == 1
\* Most handles open at a time.
MaxHandles == 1
\* The nonzero paste lifetime of the runs with a finite lifetime.
LifeTime == 2
\* The time at which the process starts (fileRecover's startTime).
StartTime == 3
\* The positive maxima of the service runs that bound capacity.
SvcMaxNumber == 2
SvcMaxStorage == 3
SvcSmallStorage == 1
\* The callers of Put that run concurrently.
NumPutters == 2
\* The interface runs: the byte values and the longest content.
MaxByte == 1
MaxLen == 2

(***************************************************************************)
(* Program constants (src/storage/storage.go).                             *)
(***************************************************************************)
randTries == 10
deleteRetries == 5

(***************************************************************************)
(* Error values.                                                           *)
(***************************************************************************)
nil == "nil"
ErrReachedMaxNumber == "reached maximum number of pastes"
ErrReachedMaxStorage == "reached maximum storage of pastes"
ErrPasteNotFound == "paste could not be found"
ErrNoUnusedIDFound == "gave up trying to find an unused random id"
\* Errors of the operating system: O_EXCL on an existing file, any other.
EEXIST == "file exists"
EIO == "input/output error"

VARIABLES
    stats,      \* Stats{number, MaxNumber, storage, MaxStorage}
    mu,         \* the callers holding Stats' mutex
    cpc,        \* SpecStats: each caller's position
    csize,      \* SpecStats: the size argument of the caller's call in progress
    held,       \* SpecStats: sizes of the caller's successful, unreleased reservations
    last,       \* the last completed Stats call: [op, size, pre, err]
    backend,    \* "fs" (FileStore) or "mmap" (MmapStore)
    lifeTime,   \* the configured lifetime of pastes, 0 for infinite
    Separator,  \* filepath.Separator of the build: "/", or "\\" on Windows
    prev,       \* what the run before this one left: [run, srv, walk, cache, stats]
    call,       \* the call of a function of the ID package under way
    srv,        \* "recovering" (constructor running), "serving" or "failed"
    walk,       \* the recovery walk: the IDs below walk have been visited (SpecWalk: the paths)
    rec,        \* the walk's last file and what it did with it: [id, kind]
    disk,       \* the files of the data directory: ID (or path) -> [size, modTime]
    cache,      \* the store's cache map: ID -> [path, size, modTime, reading]
    maps,       \* MmapStore: the IDs whose file is memory-mapped
    lock,       \* the deletion tasks holding the store's mutex exclusively
    post,       \* each upload worker: [pc, size, resv, id, err]
    tasks,      \* deletion timers: slot -> [id, size, after, pc, tries, err, reading]
    handles     \* open Paste handles: slot -> [id, reading (the handle's own cache copy)]

\* The variables that only the runs made for them change.
fixed == <<Separator, prev, call>>

statVars == <<stats, mu, cpc, csize, held, last>>
svcVars == <<backend, lifeTime, fixed, rec, srv, walk, disk, cache, maps, lock, post, tasks, handles>>
vars == <<stats, mu, cpc, csize, held, last,
          backend, lifeTime, fixed, rec, srv, walk, disk, cache, maps, lock, post, tasks, handles>>

Callers == 1..NumCallers
Sizes == 0..MaxSize
IDs == 0..(NumIDs - 1)
Workers == 1..NumWorkers
TaskSlots == 1..MaxTasks
HandleSlots == 1..MaxHandles

\* Go maps as functions on the set of their keys.
EmptyMap == <<>>
MapPut(f, k, v) == [x \in DOMAIN f \cup {k} |-> IF x = k THEN v ELSE f[x]]
MapDelete(f, k) == [x \in DOMAIN f \ {k} |-> f[x]]

IdlePost == [pc |-> "idle", size |-> 0, resv |-> nil, id |-> 0, err |-> nil]

\* No earlier run, and no call under way.
NoPrev == [run |-> "none", srv |-> "none", walk |-> {}, cache |-> EmptyMap,
           stats |-> EmptyMap]
NoCall == [op |-> "none"]

\* No file visited yet by the recovery walk.
NoRec == [id |-> 0, kind |-> "none"]

\* A build for a system whose separator is "/", no earlier run, no call.
FixedUnused ==
    /\ Separator = "/"
    /\ prev = NoPrev
    /\ call = NoCall

\* The service's variables while the service does not run.
SvcUnused ==
    /\ backend = "fs"
    /\ lifeTime = 0
    /\ srv = "serving"
    /\ walk = NumIDs
    /\ rec = NoRec
    /\ disk = EmptyMap
    /\ cache = EmptyMap
    /\ maps = {}
    /\ lock = {}
    /\ post = [w \in Workers |-> IdlePost]
    /\ tasks = EmptyMap
    /\ handles = EmptyMap

(***************************************************************************)
(* Stats (src/storage/stats.go).                                           *)
(***************************************************************************)
\* A variant that tests the storage limit before the count limit.
MakeSpaceForErrStorageFirst(s, size) ==
    IF s.MaxStorage > 0 /\ s.storage + size > s.MaxStorage THEN ErrReachedMaxStorage
    ELSE IF s.MaxNumber > 0 /\ s.number >= s.MaxNumber THEN ErrReachedMaxNumber
    ELSE nil

\* A variant that takes a zero maximum for a limit of zero.
MakeSpaceForErrZeroIsLimit(s, size) ==
    IF s.number >= s.MaxNumber THEN ErrReachedMaxNumber
    ELSE IF s.storage + size > s.MaxStorage THEN ErrReachedMaxStorage
    ELSE nil

\* The checks of MakeSpaceFor, in the order of the code: the error returned.
MakeSpaceForErr(s, size) ==
    IF s.MaxNumber > 0 /\ s.number >= s.MaxNumber THEN ErrReachedMaxNumber
    ELSE IF s.MaxStorage > 0 /\ s.storage + size > s.MaxStorage THEN ErrReachedMaxStorage
    ELSE nil

\* A variant that counts the paste and forgets its bytes.
ReserveNumberOnly(s, size) ==
    [s EXCEPT !.number = @ + 1]

\* s.number++; s.storage += size
Reserve(s, size) ==
    [s EXCEPT !.number = @ + 1, !.storage = @ + size]

\* MakeSpaceFor as one step (the mutex is held from entry to return).
MakeSpaceFor(s, size) ==
    LET err == MakeSpaceForErr(s, size)
    IN  [err |-> err, stats |-> IF err = nil THEN Reserve(s, size) ELSE s]

\* A variant that releases the paste and keeps its bytes.
FreeSpaceNumberOnly(s, size) ==
    [s EXCEPT !.number = @ - 1]

\* FreeSpace: s.number--; s.storage -= size
FreeSpace(s, size) ==
    [s EXCEPT !.number = @ - 1, !.storage = @ - size]

\* A variant without mutual exclusion.
StatsLockIgnored(m) == TRUE

\* s.Lock() on Stats' mutex can proceed.
StatsLockFree(m) == m = {}

(***************************************************************************)
(* SpecStats: concurrent callers of one Stats value whose counters start   *)
(* at zero.  A call holds the mutex from its first step to its return; a   *)
(* caller releases only reservations it obtained.                          *)
(***************************************************************************)
RECURSIVE SumOver(_, _)
SumOver(f, S) ==
    IF S = {} THEN 0
    ELSE LET x == CHOOSE y \in S : TRUE IN f[x] + SumOver(f, S \ {x})

\* held[c][z] is the number of reservations of size z that caller c holds.
HeldBy(c) == SumOver(held[c], Sizes)
HeldBytesBy(c) == SumOver([z \in Sizes |-> z * held[c][z]], Sizes)
HeldCount == SumOver([c \in Callers |-> HeldBy(c)], Callers)
HeldSum == SumOver([c \in Callers |-> HeldBytesBy(c)], Callers)

InitStats ==
    /\ stats \in [number : {0}, MaxNumber : 0..MaxCount,
                  storage : {0}, MaxStorage : 0..MaxCount]
    /\ mu = {}
    /\ cpc = [c \in Callers |-> "idle"]
    /\ csize = [c \in Callers |-> 0]
    /\ held = [c \in Callers |-> [z \in Sizes |-> 0]]
    /\ last = [op |-> "none", size |-> 0, pre |-> stats, err |-> nil]
    /\ SvcUnused
    /\ FixedUnused

\* MakeSpaceFor: s.Lock()
MsfLock(c, size) ==
    /\ UNCHANGED svcVars
    /\ cpc[c] = "idle"
    /\ HeldBy(c) < MaxHeld
    /\ StatsLockFree(mu)
    /\ mu' = mu \cup {c}
    /\ cpc' = [cpc EXCEPT ![c] = "check"]
    /\ csize' = [csize EXCEPT ![c] = size]
    /\ UNCHANGED <<stats, held, last>>

\* MakeSpaceFor: the two checks; an error returns (the deferred Unlock runs).
MsfCheck(c) ==
    /\ UNCHANGED svcVars
    /\ cpc[c] = "check"
    /\ LET err == MakeSpaceForErr(stats, csize[c])
       IN  IF err = nil
           THEN /\ cpc' = [cpc EXCEPT ![c] = "incr"]
                /\ UNCHANGED <<mu, last, csize>>
           ELSE /\ cpc' = [cpc EXCEPT ![c] = "idle"]
                /\ csize' = [csize EXCEPT ![c] = 0]
                /\ mu' = mu \ {c}
                /\ last' = [op |-> "MakeSpaceFor", size |-> csize[c],
                            pre |-> stats, err |-> err]
    /\ UNCHANGED <<stats, held>>

\* MakeSpaceFor: the increments, return nil (the deferred Unlock runs).
MsfIncr(c) ==
    /\ UNCHANGED svcVars
    /\ cpc[c] = "incr"
    /\ stats' = Reserve(stats, csize[c])
    /\ held' = [held EXCEPT ![c][csize[c]] = @ + 1]
    /\ cpc' = [cpc EXCEPT ![c] = "idle"]
    /\ mu' = mu \ {c}
    /\ last' = [op |-> "MakeSpaceFor", size |-> csize[c], pre |-> stats, err |-> nil]
    /\ csize' = [csize EXCEPT ![c] = 0]

\* FreeSpace: s.Lock(), for one of the caller's own reservations.
FsLock(c, size) ==
    /\ UNCHANGED svcVars
    /\ cpc[c] = "idle"
    /\ held[c][size] > 0
    /\ StatsLockFree(mu)
    /\ mu' = mu \cup {c}
    /\ cpc' = [cpc EXCEPT ![c] = "free"]
    /\ csize' = [csize EXCEPT ![c] = size]
    /\ UNCHANGED <<stats, held, last>>

\* FreeSpace: the decrements, s.Unlock().
FsDecr(c) ==
    /\ UNCHANGED svcVars
    /\ cpc[c] = "free"
    /\ stats' = FreeSpace(stats, csize[c])
    /\ held' = [held EXCEPT ![c][csize[c]] = @ - 1]
    /\ cpc' = [cpc EXCEPT ![c] = "idle"]
    /\ mu' = mu \ {c}
    /\ last' = [op |-> "FreeSpace", size |-> csize[c], pre |-> stats, err |-> nil]
    /\ csize' = [csize EXCEPT ![c] = 0]

NextStats ==
    \/ \E c \in Callers, size \in Sizes : MsfLock(c, size)
    \/ \E c \in Callers : MsfCheck(c)
    \/ \E c \in Callers : MsfIncr(c)
    \/ \E c \in Callers, size \in Sizes : FsLock(c, size)
    \/ \E c \in Callers : FsDecr(c)

SpecStats == InitStats /\ [][NextStats]_vars

(***************************************************************************)
(* SpecStatsAny: MakeSpaceFor and FreeSpace applied to any Stats value, as *)
(* TestMakeSpaceFor builds them (counters and maxima set freely).          *)
(***************************************************************************)
AnyRange == (0 - 1)..MaxCount

InitStatsAny ==
    /\ stats \in [number : AnyRange, MaxNumber : AnyRange,
                  storage : AnyRange, MaxStorage : AnyRange]
    /\ mu = {}
    /\ cpc = [c \in Callers |-> "idle"]
    /\ csize = [c \in Callers |-> 0]
    /\ held = [c \in Callers |-> [z \in Sizes |-> 0]]
    /\ last = [op |-> "none", size |-> 0, pre |-> stats, err |-> nil]
    /\ SvcUnused
    /\ FixedUnused

AnyMakeSpaceFor(size) ==
    /\ UNCHANGED svcVars
    /\ stats.number \in AnyRange
    /\ stats.storage \in AnyRange
    /\ LET r == MakeSpaceFor(stats, size)
       IN  /\ stats' = r.stats
           /\ last' = [op |-> "MakeSpaceFor", size |-> size, pre |-> stats, err |-> r.err]
    /\ UNCHANGED <<mu, cpc, csize, held>>

AnyFreeSpace(size) ==
    /\ UNCHANGED svcVars
    /\ stats.number \in AnyRange
    /\ stats.storage \in AnyRange
    /\ stats' = FreeSpace(stats, size)
    /\ last' = [op |-> "FreeSpace", size |-> size, pre |-> stats, err |-> nil]
    /\ UNCHANGED <<mu, cpc, csize, held>>

NextStatsAny ==
    \/ \E size \in Sizes : AnyMakeSpaceFor(size)
    \/ \E size \in Sizes : AnyFreeSpace(size)

SpecStatsAny == InitStatsAny /\ [][NextStatsAny]_vars

(***************************************************************************)
(* The store, the upload handler, the deletion scheduler and recovery.     *)
(***************************************************************************)
\* time.Now() while the service runs: the model's clock stays at StartTime.
Now == StartTime

\* A draw in which rand.Read returned an error.
ReadFailed == 0 - 1

\* A loop that makes one try more.
MoreTriesInclusive(try) == try <= randTries

\* for try := 0; try < randTries; try++
MoreTries(try) == try < randTries

\* randomID's loop from try number try, id being what the buffer holds:
\* available is the set of IDs its predicate accepts.  A failed draw uses
\* up its try and does not consult the predicate.
RECURSIVE randomIDFrom(_, _, _, _)
randomIDFrom(try, id, draws, available) ==
    IF ~MoreTries(try) THEN [id |-> id, err |-> ErrNoUnusedIDFound]
    ELSE IF draws[try + 1] = ReadFailed THEN randomIDFrom(try + 1, id, draws, available)
    ELSE IF draws[try + 1] \in available THEN [id |-> draws[try + 1], err |-> nil]
    ELSE randomIDFrom(try + 1, draws[try + 1], draws, available)

randomID(draws, available) == randomIDFrom(0, 0, draws, available)

\* What rand.Read yields over the tries of one randomID call: one ID for
\* every try but the last, and any ID for the last.
Draws == {[i \in 1..randTries |-> IF i < randTries THEN a ELSE b] : a, b \in IDs}

\* Put's predicate available: the IDs with no cache record.
available(c) == IDs \ DOMAIN c

\* The cache record Put and recovery's insert build; reading is the zero WaitGroup.
NewCache(id, size, modTime) ==
    [path |-> id, size |-> size, modTime |-> modTime, reading |-> 0]

\* cached.reading.Add(1) on Get's local copy of the record.
ReadingAdd(cached) == [cached EXCEPT !.reading = @ + 1]

FreeTaskSlots == TaskSlots \ DOMAIN tasks
FreeHandleSlots == HandleSlots \ DOMAIN handles
MinOf(S) == CHOOSE x \in S : \A y \in S : x <= y

\* SetupPasteDeletion: no timer for after = 0, else time.AfterFunc(after, f).
SetupPasteDeletion(ts, id, size, after) ==
    IF after = 0 THEN ts
    ELSE MapPut(ts, MinOf(TaskSlots \ DOMAIN ts),
                [id |-> id, size |-> size, after |-> after,
                 pc |-> "timer", tries |-> 0, err |-> nil, reading |-> 0])

\* A retry loop that does not count its attempts and so never gives up.
DelFailedUncounted(ts, t, err) ==
    [ts EXCEPT ![t].pc = "retry", ![t].err = err, ![t].reading = 0]

\* del() returned the error err: the first failure starts the retry loop,
\* which makes deleteRetries further attempts.
DelFailed(ts, t, err) ==
    IF ts[t].tries + 1 > deleteRetries THEN MapDelete(ts, t)
    ELSE [ts EXCEPT ![t].pc = "retry", ![t].tries = @ + 1, ![t].err = err,
                    ![t].reading = 0]

Uploading == {w \in Workers : post[w].pc # "idle"}

(* ---------------- recovery: NewFileStore / NewMmapStore ---------------- *)
\* A lifeLeft from which the start time is not subtracted.
LifeLeftUnsubtracted(modTime) == modTime + lifeTime

\* A lifeLeft that forgets the file's age: the whole lifetime again.
LifeLeftFull(modTime) == lifeTime

\* lifeLeft := modTime.Add(lifeTime).Sub(startTime)
LifeLeft(modTime) == modTime + lifeTime - StartTime

\* A walk that takes a zero-byte file for a paste.
fileRecoverKindKeepsEmpty(f, s) ==
    IF lifeTime > 0 /\ LifeLeft(f.modTime) <= 0 THEN "expired"
    ELSE IF MakeSpaceForErr(s, f.size) # nil THEN "failed"
    ELSE "indexed"

\* A walk that indexes a file although its reservation failed.
fileRecoverKindIgnoresFull(f, s) ==
    IF lifeTime > 0 /\ LifeLeft(f.modTime) <= 0 THEN "expired"
    ELSE IF f.size = 0 THEN "empty"
    ELSE "indexed"

\* What fileRecover's WalkFunc does with the file f, the counters being s:
\* its tests in their order.
fileRecoverKind(f, s) ==
    IF lifeTime > 0 /\ LifeLeft(f.modTime) <= 0 THEN "expired"
    ELSE IF f.size = 0 THEN "empty"
    ELSE IF MakeSpaceForErr(s, f.size) # nil THEN "failed"
    ELSE "indexed"

\* fileRecover's WalkFunc on the file of ID walk.
RecoverFile ==
    /\ srv = "recovering"
    /\ walk \in DOMAIN disk
    /\ LET id == walk
           f == disk[id]
           lifeLeft == LifeLeft(f.modTime)
           r == MakeSpaceFor(stats, f.size)
           kind == fileRecoverKind(f, stats)
       IN  IF kind \in {"expired", "empty"}
           THEN \* return os.Remove(path)
                /\ disk' = MapDelete(disk, id)
                /\ walk' = walk + 1
                /\ rec' = [id |-> id, kind |-> kind]
                /\ UNCHANGED <<stats, cache, maps, tasks, srv>>
           ELSE IF kind = "failed"
           THEN \* the walk returns the error: the constructor returns no store
                /\ srv' = "failed"
                /\ rec' = [id |-> id, kind |-> "failed"]
                /\ UNCHANGED <<stats, cache, maps, tasks, disk, walk>>
           ELSE /\ stats' = r.stats
                /\ rec' = [id |-> id, kind |-> "indexed"]
                /\ cache' = MapPut(cache, id, NewCache(id, f.size, f.modTime))
                /\ maps' = IF backend = "mmap" THEN maps \cup {id} ELSE maps
                /\ tasks' = SetupPasteDeletion(tasks, id, f.size, lifeLeft)
                /\ walk' = walk + 1
                /\ UNCHANGED <<disk, srv>>
    /\ UNCHANGED <<mu, cpc, csize, held, last, backend, lifeTime, fixed, lock, post, handles>>

\* The walk passes an ID that has no file.
RecoverSkip ==
    /\ srv = "recovering"
    /\ walk \in IDs \ DOMAIN disk
    /\ walk' = walk + 1
    /\ UNCHANGED <<statVars, backend, lifeTime, fixed, rec, srv, disk, cache, maps, lock, post,
                   tasks, handles>>

\* setupSubdirs returned nil: the constructor returns the store.
RecoverDone ==
    /\ srv = "recovering"
    /\ walk = NumIDs
    /\ srv' = "serving"
    /\ rec' = NoRec
    /\ UNCHANGED <<statVars, backend, lifeTime, fixed, walk, disk, cache, maps, lock, post,
                   tasks, handles>>

(* ---------------- handler, POST ---------------- *)
\* stats.makeSpaceFor(size); on an error the handler answers 503 and goes on.
PostReserve(w, size) ==
    /\ srv = "serving"
    /\ post[w].pc = "idle"
    /\ size >= 1
    /\ lifeTime > 0 => Cardinality(FreeTaskSlots) > Cardinality(Uploading)
    /\ LET r == MakeSpaceFor(stats, size)
       IN  /\ stats' = r.stats
           /\ post' = [post EXCEPT ![w] = [pc |-> "put", size |-> size,
                                            resv |-> r.err, id |-> 0, err |-> nil]]
    /\ UNCHANGED <<mu, cpc, csize, held, last, backend, lifeTime, fixed, rec, srv, walk, disk,
                   cache, maps, lock, tasks, handles>>

\* A store.Put whose writeNewFile opens without O_EXCL: it writes over a
\* file that is there.
PostPutOverwrites(w, draws, io, n) ==
    /\ post[w].pc = "put"
    /\ lock = {}
    /\ n < post[w].size
    /\ io = "mmap_err" => backend = "mmap"
    /\ LET size == post[w].size
           r == randomID(draws, available(cache))
           id == r.id
           err == IF r.err # nil THEN r.err
                  ELSE IF io = "ok" THEN nil
                  ELSE EIO
           created == r.err = nil /\ io # "open_err"
           written == IF io = "write_err" THEN n ELSE size
       IN  /\ post' = [post EXCEPT ![w].pc = "done", ![w].id = id, ![w].err = err]
           /\ disk' = IF created
                      THEN MapPut(disk, id, [size |-> written, modTime |-> Now])
                      ELSE disk
           /\ cache' = IF err = nil
                       THEN MapPut(cache, id, NewCache(id, size, Now))
                       ELSE cache
           /\ maps' = IF err = nil /\ backend = "mmap" THEN maps \cup {id} ELSE maps
    /\ UNCHANGED <<statVars, backend, lifeTime, fixed, rec, srv, walk, lock, tasks, handles>>

\* store.Put(content), under the store's exclusive lock.  io is what the
\* operating system does: "ok", "open_err" (OpenFile fails, no file),
\* "write_err" (Write or Close fails after n bytes), "mmap_err" (Map fails).
PostPut(w, draws, io, n) ==
    /\ post[w].pc = "put"
    /\ lock = {}
    /\ n < post[w].size
    /\ io = "mmap_err" => backend = "mmap"
    /\ LET size == post[w].size
           r == randomID(draws, available(cache))
           id == r.id
           err == IF r.err # nil THEN r.err
                  ELSE IF id \in DOMAIN disk THEN EEXIST
                  ELSE IF io = "ok" THEN nil
                  ELSE EIO
           created == r.err = nil /\ id \notin DOMAIN disk /\ io # "open_err"
           written == IF io = "write_err" THEN n ELSE size
       IN  /\ post' = [post EXCEPT ![w].pc = "done", ![w].id = id, ![w].err = err]
           /\ disk' = IF created
                      THEN MapPut(disk, id, [size |-> written, modTime |-> Now])
                      ELSE disk
           /\ cache' = IF err = nil
                       THEN MapPut(cache, id, NewCache(id, size, Now))
                       ELSE cache
           /\ maps' = IF err = nil /\ backend = "mmap" THEN maps \cup {id} ELSE maps
    /\ UNCHANGED <<statVars, backend, lifeTime, fixed, rec, srv, walk, lock, tasks, handles>>

\* A handler that answers 500 without giving the reservation back.
PostRollbackNoFree(w) ==
    /\ post[w].pc = "done"
    /\ post[w].err # nil
    /\ post' = [post EXCEPT ![w] = IdlePost]
    /\ UNCHANGED <<statVars, backend, lifeTime, fixed, rec, srv, walk, disk, cache, maps, lock,
                   tasks, handles>>

\* store.Put returned an error: stats.freeSpace(size), answer 500, return.
PostRollback(w) ==
    /\ post[w].pc = "done"
    /\ post[w].err # nil
    /\ stats' = FreeSpace(stats, post[w].size)
    /\ post' = [post EXCEPT ![w] = IdlePost]
    /\ UNCHANGED <<mu, cpc, csize, held, last, backend, lifeTime, fixed, rec, srv, walk, disk,
                   cache, maps, lock, tasks, handles>>

\* store.Put returned an ID: setupPasteDeletion(store, id, size, lifeTime).
PostArm(w) ==
    /\ post[w].pc = "done"
    /\ post[w].err = nil
    /\ tasks' = SetupPasteDeletion(tasks, post[w].id, post[w].size, lifeTime)
    /\ post' = [post EXCEPT ![w] = IdlePost]
    /\ UNCHANGED <<statVars, backend, lifeTime, fixed, rec, srv, walk, disk, cache, maps, lock,
                   handles>>

(* ---------------- handler, GET: store.Get and Paste.Close ---------------- *)
\* Get finds the record: cached is a copy of the map's value, the handle
\* points at that copy and the Add(1) counts on it; the map is not written.
Get(id) ==
    /\ srv = "serving"
    /\ lock = {}
    /\ id \in DOMAIN cache
    /\ FreeHandleSlots # {}
    /\ LET cached == cache[id]
       IN  handles' = MapPut(handles, MinOf(FreeHandleSlots),
                             [id |-> id, reading |-> ReadingAdd(cached).reading])
    /\ UNCHANGED <<statVars, backend, lifeTime, fixed, rec, srv, walk, disk, cache, maps, lock,
                   post, tasks>>

\* A Close that takes the store's lock before it counts the reader out.
CloseNeedsLock(h) ==
    /\ h \in DOMAIN handles
    /\ lock = {}
    /\ handles' = MapDelete(handles, h)
    /\ UNCHANGED <<statVars, backend, lifeTime, fixed, rec, srv, walk, disk, cache, maps, lock,
                   post, tasks>>

\* Close: c.cache.reading.Done() on the handle's copy; the handle is gone.
Close(h) ==
    /\ h \in DOMAIN handles
    /\ handles' = MapDelete(handles, h)
    /\ UNCHANGED <<statVars, backend, lifeTime, fixed, rec, srv, walk, disk, cache, maps, lock,
                   post, tasks>>

(* ---------------- the deletion timer's function f ---------------- *)
\* A del() that frees the paste's space although Delete found no record.
DeleteBeginFreesMissing(t) ==
    /\ srv # "failed"
    /\ t \in DOMAIN tasks
    /\ tasks[t].pc \in {"timer", "retry"}
    /\ lock = {}
    /\ LET id == tasks[t].id
       IN  IF id \notin DOMAIN cache
           THEN /\ tasks' = DelFailed(tasks, t, ErrPasteNotFound)
                /\ stats' = FreeSpace(stats, tasks[t].size)
                /\ UNCHANGED <<cache, lock>>
           ELSE /\ cache' = MapDelete(cache, id)
                /\ lock' = {t}
                /\ tasks' = [tasks EXCEPT ![t].pc = "wait",
                                          ![t].reading = cache[id].reading]
                /\ UNCHANGED stats
    /\ UNCHANGED <<mu, cpc, csize, held, last, backend, lifeTime, fixed, rec, srv, walk,
                   disk, maps, post, handles>>

\* del(): s.Delete(id) up to delete(s.cache, id).  The timer (or the retry
\* timer) has fired; Delete takes the exclusive lock, and either returns
\* ErrPasteNotFound or removes the record, keeping its copy cached.
DeleteBegin(t) ==
    /\ srv # "failed"
    /\ t \in DOMAIN tasks
    /\ tasks[t].pc \in {"timer", "retry"}
    /\ lock = {}
    /\ LET id == tasks[t].id
       IN  IF id \notin DOMAIN cache
           THEN /\ tasks' = DelFailed(tasks, t, ErrPasteNotFound)
                /\ UNCHANGED <<cache, lock>>
           ELSE /\ cache' = MapDelete(cache, id)
                /\ lock' = {t}
                /\ tasks' = [tasks EXCEPT ![t].pc = "wait",
                                          ![t].reading = cache[id].reading]
    /\ UNCHANGED <<statVars, backend, lifeTime, fixed, rec, srv, walk, disk, maps, post, handles>>

\* A Delete that gives the paste's space back itself when it succeeds, as
\* the scheduler does after it.
DeleteFinishFrees(t, io) ==
    /\ srv # "failed"
    /\ t \in DOMAIN tasks
    /\ tasks[t].pc = "wait"
    /\ tasks[t].reading = 0
    /\ io = "unmap_err" => backend = "mmap"
    /\ LET id == tasks[t].id
       IN  /\ maps' = IF io = "unmap_err" THEN maps ELSE maps \ {id}
           /\ disk' = IF io = "ok" THEN MapDelete(disk, id) ELSE disk
           /\ tasks' = IF io = "ok"
                       THEN [tasks EXCEPT ![t].pc = "free", ![t].err = nil]
                       ELSE DelFailed(tasks, t, EIO)
           /\ stats' = IF io = "ok" THEN FreeSpace(stats, tasks[t].size) ELSE stats
    /\ lock' = {}
    /\ UNCHANGED <<mu, cpc, csize, held, last, backend, lifeTime, fixed, rec, srv, walk,
                   cache, post, handles>>

\* s.Delete(id) from cached.reading.Wait() to its return.  io is what the
\* operating system does: "ok", "unmap_err" (Unmap fails), "remove_err".
DeleteFinish(t, io) ==
    /\ srv # "failed"
    /\ t \in DOMAIN tasks
    /\ tasks[t].pc = "wait"
    /\ tasks[t].reading = 0
    /\ io = "unmap_err" => backend = "mmap"
    /\ LET id == tasks[t].id
       IN  /\ maps' = IF io = "unmap_err" THEN maps ELSE maps \ {id}
           /\ disk' = IF io = "ok" THEN MapDelete(disk, id) ELSE disk
           /\ tasks' = IF io = "ok"
                       THEN [tasks EXCEPT ![t].pc = "free", ![t].err = nil]
                       ELSE DelFailed(tasks, t, EIO)
    /\ lock' = {}
    /\ UNCHANGED <<statVars, backend, lifeTime, fixed, rec, srv, walk, cache, post, handles>>

\* A del() that returns nil without giving the paste's space back.
DeleteFreeKeepsSpace(t) ==
    /\ srv # "failed"
    /\ t \in DOMAIN tasks
    /\ tasks[t].pc = "free"
    /\ tasks' = MapDelete(tasks, t)
    /\ UNCHANGED <<statVars, backend, lifeTime, fixed, rec, srv, walk, disk,
                   cache, maps, lock, post, handles>>

\* del(): Delete returned nil: stats.FreeSpace(size); f is over.
DeleteFree(t) ==
    /\ srv # "failed"
    /\ t \in DOMAIN tasks
    /\ tasks[t].pc = "free"
    /\ stats' = FreeSpace(stats, tasks[t].size)
    /\ tasks' = MapDelete(tasks, t)
    /\ UNCHANGED <<mu, cpc, csize, held, last, backend, lifeTime, fixed, rec, srv, walk, disk,
                   cache, maps, lock, post, handles>>

(* ---------------- the service ---------------- *)
\* The files a data directory holds at start: left by an earlier run.
\* Their modification times: more than LifeTime, exactly LifeTime and less
\* than LifeTime before the start.
InitModTimes == {StartTime - LifeTime - 1, StartTime - LifeTime, StartTime - 1}
InitFiles == [size : Sizes, modTime : InitModTimes]
\* The files of d that hold bytes: those recovery may arm a timer for.
NonEmptyFiles(d) == {id \in DOMAIN d : d[id].size > 0}

InitDisks == UNION {[S -> InitFiles] : S \in SUBSET IDs}

\* The limits the service is started with: none, both, or a storage limit
\* smaller than a file of the data directory.
SvcLimits == {[MaxNumber |-> 0, MaxStorage |-> 0],
              [MaxNumber |-> SvcMaxNumber, MaxStorage |-> SvcMaxStorage],
              [MaxNumber |-> 0, MaxStorage |-> SvcSmallStorage]}

Init ==
    /\ stats \in {[number |-> 0, MaxNumber |-> l.MaxNumber,
                   storage |-> 0, MaxStorage |-> l.MaxStorage] : l \in SvcLimits}
    /\ mu = {}
    /\ cpc = [c \in Callers |-> "idle"]
    /\ csize = [c \in Callers |-> 0]
    /\ held = [c \in Callers |-> [z \in Sizes |-> 0]]
    /\ last = [op |-> "none", size |-> 0, pre |-> stats, err |-> nil]
    /\ backend \in {"fs", "mmap"}
    /\ lifeTime \in {0, LifeTime}
    /\ FixedUnused
    /\ srv = "recovering"
    /\ walk = 0
    /\ rec = NoRec
    /\ disk \in {d \in InitDisks : Cardinality(NonEmptyFiles(d)) <= MaxTasks}
    /\ cache = EmptyMap
    /\ maps = {}
    /\ lock = {}
    /\ post = [w \in Workers |-> IdlePost]
    /\ tasks = EmptyMap
    /\ handles = EmptyMap

Next ==
    \/ RecoverFile
    \/ RecoverSkip
    \/ RecoverDone
    \/ \E w \in Workers, size \in Sizes : PostReserve(w, size)
    \/ \E w \in Workers, draws \in Draws, n \in Sizes,
          io \in {"ok", "open_err", "write_err", "mmap_err"} : PostPut(w, draws, io, n)
    \/ \E w \in Workers : PostRollback(w)
    \/ \E w \in Workers : PostArm(w)
    \/ \E id \in IDs : Get(id)
    \/ \E h \in HandleSlots : Close(h)
    \/ \E t \in TaskSlots : DeleteBegin(t)
    \/ \E t \in TaskSlots, io \in {"ok", "unmap_err", "remove_err"} : DeleteFinish(t, io)
    \/ \E t \in TaskSlots : DeleteFree(t)

Spec == Init /\ [][Next]_vars

(***************************************************************************)
(* The stores seen through their interface, with the bytes of the pastes:  *)
(* Put, Get, Close and Delete of FileStore, MmapStore and MemStore.        *)
(***************************************************************************)
Bytes == 0..MaxByte
Contents == UNION {[1..n -> Bytes] : n \in 1..MaxLen}

\* The first n bytes of content.
Prefix(content, n) == SubSeq(content, 1, n)

\* A writeNewFile that takes a short write for a complete one.
writeNewFileErrNoShortWrite(exists, io) ==
    IF exists THEN EEXIST
    ELSE IF io = "open_err" THEN EIO
    ELSE nil

\* writeNewFile's result: the exclusive create fails on an existing file;
\* OpenFile, Write (a short write included) or Close may fail.
writeNewFileErr(exists, io) ==
    IF exists THEN EEXIST
    ELSE IF io \in {"open_err", "write_err"} THEN EIO
    ELSE nil

\* The bytes writeNewFile leaves in the file it created.
Written(content, io, n) == IF io = "write_err" THEN Prefix(content, n) ELSE content

\* The variables the interface runs leave alone.
storeIdle == <<mu, cpc, csize, held, last, lifeTime, fixed, srv, walk, rec, lock, post, tasks>>

\* A store just constructed, over an empty directory.
NewStore ==
    /\ stats \in {[number |-> 0, MaxNumber |-> l.MaxNumber,
                   storage |-> 0, MaxStorage |-> l.MaxStorage] : l \in SvcLimits}
    /\ mu = {}
    /\ cpc = [c \in Callers |-> "idle"]
    /\ csize = [c \in Callers |-> 0]
    /\ held = [c \in Callers |-> [z \in Sizes |-> 0]]
    /\ last = [op |-> "none", size |-> 0, pre |-> stats, err |-> nil]
    /\ backend \in {"fs", "mmap", "mem"}
    /\ lifeTime = 0
    /\ FixedUnused
    /\ srv = "serving"
    /\ walk = NumIDs
    /\ rec = NoRec
    /\ disk = EmptyMap
    /\ cache = EmptyMap
    /\ maps = {}
    /\ lock = {}
    /\ tasks = EmptyMap
    /\ handles = EmptyMap

InitStore ==
    /\ NewStore
    /\ post = [w \in Workers |-> IdlePost]

\* FileStore.Put and MmapStore.Put: randomID, writeNewFile, (Map,) insert.
\* The record's field put notes the content this Put was called with.
FilePut(content, draws, io, n) ==
    /\ backend \in {"fs", "mmap"}
    /\ io = "mmap_err" => backend = "mmap"
    /\ IF io = "write_err" THEN n < Len(content) ELSE n = 0
    /\ LET r == randomID(draws, available(cache))
           id == r.id
           werr == writeNewFileErr(id \in DOMAIN disk, io)
           err == IF r.err # nil THEN r.err
                  ELSE IF werr # nil THEN werr
                  ELSE IF io = "mmap_err" THEN EIO
                  ELSE nil
           created == r.err = nil /\ id \notin DOMAIN disk /\ io # "open_err"
       IN  /\ disk' = IF created
                      THEN MapPut(disk, id, [data |-> Written(content, io, n),
                                             modTime |-> Now])
                      ELSE disk
           /\ cache' = IF err = nil
                       THEN MapPut(cache, id, [path |-> id, size |-> Len(content),
                                               modTime |-> Now, reading |-> 0,
                                               buffer |-> <<>>, put |-> content])
                       ELSE cache
           /\ maps' = IF err = nil /\ backend = "mmap" THEN maps \cup {id} ELSE maps
    /\ UNCHANGED <<stats, backend, handles, storeIdle>>

\* MemStore.Put: hasSpaceFor, randomID, makeSpaceFor, insert of the buffer.
MemPut(content, draws) ==
    /\ backend = "mem"
    /\ LET size == Len(content)
           r == randomID(draws, available(cache))
           err == IF MakeSpaceForErr(stats, size) # nil
                  THEN MakeSpaceForErr(stats, size) ELSE r.err
       IN  /\ stats' = IF err = nil THEN Reserve(stats, size) ELSE stats
           /\ cache' = IF err = nil
                       THEN MapPut(cache, r.id, [path |-> r.id, size |-> size,
                                                 modTime |-> Now, reading |-> 0,
                                                 buffer |-> content, put |-> content])
                       ELSE cache
    /\ UNCHANGED <<backend, disk, maps, handles, storeIdle>>

\* The bytes a handle on the record cached reads: the file opened at its
\* path, the mapping of that file, or the buffer.
HandleData(cached) ==
    IF backend = "mem" THEN cached.buffer ELSE disk[cached.path].data

\* Get: the handle reads HandleData and answers Size from its copy of the
\* record.
StoreGet(id) ==
    /\ id \in DOMAIN cache
    /\ FreeHandleSlots # {}
    /\ LET cached == cache[id]
       IN  handles' = MapPut(handles, MinOf(FreeHandleSlots),
                             [id |-> id, reading |-> ReadingAdd(cached).reading,
                              size |-> cached.size, modTime |-> cached.modTime,
                              data |-> HandleData(cached), put |-> cached.put])
    /\ UNCHANGED <<stats, backend, disk, cache, maps, storeIdle>>

\* A Close that removes the paste's file once its reader is done.
StoreCloseRemovesFile(h) ==
    /\ h \in DOMAIN handles
    /\ handles' = MapDelete(handles, h)
    /\ disk' = MapDelete(disk, handles[h].id)
    /\ UNCHANGED <<stats, backend, cache, maps, storeIdle>>

\* Close: the file's Close (nothing for a mapping or a buffer) and Done()
\* on the handle's copy of the record; the handle is gone.
StoreClose(h) ==
    /\ h \in DOMAIN handles
    /\ handles' = MapDelete(handles, h)
    /\ UNCHANGED <<stats, backend, disk, cache, maps, storeIdle>>

\* Delete of a paste that has a record: the record goes first; then the
\* file store removes the file, the mmap store unmaps and removes, the
\* memory store frees the space.
StoreDelete(id, io) ==
    /\ id \in DOMAIN cache
    /\ io = "unmap_err" => backend = "mmap"
    /\ io # "ok" => backend # "mem"
    /\ cache' = MapDelete(cache, id)
    /\ maps' = IF io = "unmap_err" THEN maps ELSE maps \ {id}
    /\ disk' = IF io = "ok" /\ backend # "mem" THEN MapDelete(disk, id) ELSE disk
    /\ stats' = IF backend = "mem" THEN FreeSpace(stats, cache[id].size) ELSE stats
    /\ UNCHANGED <<backend, handles, storeIdle>>

NextStore ==
    \/ \E content \in Contents, draws \in Draws, n \in 0..(MaxLen - 1),
          io \in {"ok", "open_err", "write_err", "mmap_err"} :
            FilePut(content, draws, io, n)
    \/ \E content \in Contents, draws \in Draws : MemPut(content, draws)
    \/ \E id \in IDs : StoreGet(id)
    \/ \E h \in HandleSlots : StoreClose(h)
    \/ \E id \in IDs, io \in {"ok", "unmap_err", "remove_err"} : StoreDelete(id, io)

SpecStore == InitStore /\ [][NextStore]_vars

\* C14: after Put(content) has returned an ID, every handle that Get returns
\* for it before the paste is deleted reads exactly the bytes of content and
\* answers Size with their number, in the file, mmap and memory stores.
C14_RoundTrip ==
    \A h \in DOMAIN handles :
        /\ handles[h].data = handles[h].put
        /\ handles[h].size = Len(handles[h].put)

\* C34: a paste's record is never changed while the paste is indexed, nor
\* are its bytes (file or buffer); a handle reports the ModTime and Size of
\* the record and reads those bytes; and the steps Get and Close change
\* neither the index, nor the files, nor the mappings, nor the counters, so
\* that after a Close a Get of the same ID finds the same paste.
C34_ReadOnlyReads ==
    /\ [][\A id \in DOMAIN cache \cap DOMAIN cache' :
             /\ cache'[id] = cache[id]
             /\ backend # "mem"
                   => /\ cache[id].path \in DOMAIN disk'
                      /\ disk'[cache[id].path] = disk[cache[id].path]]_vars
    /\ [][handles' # handles
             => /\ cache' = cache
                /\ disk' = disk
                /\ maps' = maps
                /\ stats' = stats]_vars
    /\ [][\A h \in DOMAIN handles' \ DOMAIN handles :
             LET c == cache[handles'[h].id]
             IN  /\ handles'[h].modTime = c.modTime
                 /\ handles'[h].size = c.size
                 /\ handles'[h].data = HandleData(c)]_vars

\* A handle is open on one of two indexed pastes and reports its record's
\* ModTime and Size and the bytes stored for it.
C34_Witness ==
    \E h \in DOMAIN handles :
        /\ handles[h].id \in DOMAIN cache
        /\ Cardinality(DOMAIN cache) = 2
        /\ handles[h].modTime = cache[handles[h].id].modTime
        /\ handles[h].size = cache[handles[h].id].size
        /\ handles[h].data = HandleData(cache[handles[h].id])
        /\ Len(handles[h].data) = MaxLen

\* A handle is open on a paste of MaxLen bytes that differ, in a store
\* where an earlier upload left a truncated file.
C14_Witness ==
    \E h \in DOMAIN handles :
        /\ Len(handles[h].put) = MaxLen
        /\ handles[h].put[1] # handles[h].put[MaxLen]
        /\ handles[h].id \in DOMAIN cache
        /\ backend # "mem" =>
              \E id \in DOMAIN disk \ DOMAIN cache : Len(disk[id].data) < MaxLen

(***************************************************************************)
(* Concurrent Put calls, statement by statement: each caller takes the     *)
(* store's mutex, draws an ID, writes the file and inserts the record.     *)
(***************************************************************************)
Putters == 1..NumPutters

\* A Put that does not take the store's mutex.
StoreLockIgnored(l) == TRUE

\* s.Lock() returns when nobody holds the store's mutex.
StoreLockFree(l) == l = {}

putIdle == <<mu, cpc, csize, held, last, backend, lifeTime, fixed, srv, walk, rec,
             tasks, handles>>

InitPut ==
    /\ NewStore
    /\ post = [c \in Putters |-> IdlePost]

\* Put is called with size bytes: s.Lock().
PutLock(c, size) ==
    /\ post[c].pc = "idle"
    /\ size >= 1
    /\ StoreLockFree(lock)
    /\ lock' = lock \cup {c}
    /\ post' = [post EXCEPT ![c] = [IdlePost EXCEPT !.pc = "draw", !.size = size]]
    /\ UNCHANGED <<stats, disk, cache, maps, putIdle>>

\* (MemStore: hasSpaceFor;) randomID(available); an error returns, which
\* unlocks.
PutDraw(c, draws) ==
    /\ post[c].pc = "draw"
    /\ LET r == randomID(draws, available(cache))
           full == IF backend = "mem" THEN MakeSpaceForErr(stats, post[c].size)
                   ELSE nil
           err == IF full # nil THEN full ELSE r.err
       IN  /\ post' = [post EXCEPT ![c].id = IF full # nil THEN 0 ELSE r.id,
                                   ![c].err = err,
                                   ![c].pc = IF err # nil THEN "done"
                                             ELSE IF backend = "mem" THEN "insert"
                                             ELSE "write"]
           /\ lock' = IF err # nil THEN lock \ {c} ELSE lock
    /\ UNCHANGED <<stats, disk, cache, maps, putIdle>>

\* FileStore, MmapStore: writeNewFile (and Map); an error returns.
PutWrite(c, io, n) ==
    /\ post[c].pc = "write"
    /\ io = "mmap_err" => backend = "mmap"
    /\ IF io = "write_err" THEN n < post[c].size ELSE n = 0
    /\ LET id == post[c].id
           werr == writeNewFileErr(id \in DOMAIN disk, io)
           err == IF werr # nil THEN werr
                  ELSE IF io = "mmap_err" THEN EIO
                  ELSE nil
           created == id \notin DOMAIN disk /\ io # "open_err"
       IN  /\ disk' = IF created
                      THEN MapPut(disk, id,
                                  [size |-> IF io = "write_err" THEN n ELSE post[c].size,
                                   modTime |-> Now])
                      ELSE disk
           /\ post' = [post EXCEPT ![c].err = err,
                                   ![c].pc = IF err # nil THEN "done" ELSE "insert"]
           /\ lock' = IF err # nil THEN lock \ {c} ELSE lock
    /\ UNCHANGED <<stats, cache, maps, putIdle>>

\* (MemStore: makeSpaceFor;) s.cache[id] = record; return id, nil.
PutInsert(c) ==
    /\ post[c].pc = "insert"
    /\ cache' = MapPut(cache, post[c].id, NewCache(post[c].id, post[c].size, Now))
    /\ maps' = IF backend = "mmap" THEN maps \cup {post[c].id} ELSE maps
    /\ stats' = IF backend = "mem" THEN Reserve(stats, post[c].size) ELSE stats
    /\ post' = [post EXCEPT ![c].pc = "done"]
    /\ lock' = lock \ {c}
    /\ UNCHANGED <<disk, putIdle>>

\* The caller has used Put's result.
PutReturn(c) ==
    /\ post[c].pc = "done"
    /\ post' = [post EXCEPT ![c] = IdlePost]
    /\ UNCHANGED <<stats, disk, cache, maps, lock, putIdle>>

\* A Delete between the Puts, under the mutex.
PutDelete(id, io) ==
    /\ StoreLockFree(lock)
    /\ StoreDelete(id, io)

NextPut ==
    \/ \E c \in Putters, size \in Sizes : PutLock(c, size)
    \/ \E c \in Putters, draws \in Draws : PutDraw(c, draws)
    \/ \E c \in Putters, n \in Sizes,
          io \in {"ok", "open_err", "write_err", "mmap_err"} : PutWrite(c, io, n)
    \/ \E c \in Putters : PutInsert(c)
    \/ \E c \in Putters : PutReturn(c)
    \/ \E id \in IDs, io \in {"ok", "unmap_err", "remove_err"} : PutDelete(id, io)

SpecPut == InitPut /\ [][NextPut]_vars

\* C15: under any interleaving of concurrent Put calls, the ID a Put inserts
\* and returns has no cache record at the moment of the insertion, the
\* insertion adds exactly that record, and no step changes the record of an
\* ID that keeps one: two live pastes never share an ID.
C15_UniqueIDs ==
    [][/\ \A c \in Putters :
            (post[c].pc = "insert" /\ post'[c].pc = "done")
                => /\ post[c].id \notin DOMAIN cache
                   /\ DOMAIN cache' = DOMAIN cache \cup {post[c].id}
       /\ \A id \in DOMAIN cache \cap DOMAIN cache' : cache'[id] = cache[id]]_vars

\* One caller's Put has returned an ID whose paste is live, and another
\* caller's Put holds the mutex and is about to insert the ID it drew.
C15_Witness ==
    \E c, d \in Putters :
        /\ c # d
        /\ post[c].pc = "insert"
        /\ post[d].pc = "done"
        /\ post[d].err = nil
        /\ post[d].id \in DOMAIN cache

(***************************************************************************)
(* IDs, their hexadecimal form and their paths (src/storage/storage.go,    *)
(* src/storage_fs.go).  A string is a sequence of one-character strings.   *)
(***************************************************************************)
\* Length of the hexadecimal form of an ID; an ID has idSize / 2 bytes.
idSize == 8

\* The values a byte of an ID takes in the runs, spread over 0..251: bytes
\* whose two hexadecimal digits differ, with decimal digits and letters.
NumByteValues == 4
ByteValues == {(i * 251) \div (NumByteValues - 1) : i \in 0..(NumByteValues - 1)}
IDValues == [1..(idSize \div 2) -> ByteValues]

\* var id ID: the zero value.
ZeroID == [i \in 1..(idSize \div 2) |-> 0]

ErrInvalidID == "invalid id"
ErrHex == "encoding/hex: invalid byte or odd length"
ErrNumDirs == "invalid number of directories"
ErrDirLength == "invalid directory name length"

\* encoding/hex: the digits EncodeToString writes, and those DecodeString
\* reads besides them.
hextable == <<"0", "1", "2", "3", "4", "5", "6", "7",
              "8", "9", "a", "b", "c", "d", "e", "f">>
hexupper == <<"A", "B", "C", "D", "E", "F">>

\* encoding/hex's fromHexChar: the value of a digit, -1 for any other character.
fromHexChar(c) ==
    IF \E i \in 1..16 : hextable[i] = c
    THEN (CHOOSE i \in 1..16 : hextable[i] = c) - 1
    ELSE IF \E i \in 1..6 : hexupper[i] = c
    THEN (CHOOSE i \in 1..6 : hexupper[i] = c) + 9
    ELSE 0 - 1

\* hex.EncodeToString: two lower-case digits for each byte, high nibble first.
EncodeToString(b) ==
    [i \in 1..(2 * Len(b)) |->
        IF i % 2 = 1 THEN hextable[(b[(i + 1) \div 2] \div 16) + 1]
        ELSE hextable[(b[i \div 2] % 16) + 1]]

\* hex.DecodeString: an error for an odd length or a character that is no
\* hexadecimal digit, else one byte for each pair of digits.
DecodeString(s) ==
    IF Len(s) % 2 # 0 \/ \E i \in 1..Len(s) : fromHexChar(s[i]) < 0
    THEN [b |-> <<>>, err |-> ErrHex]
    ELSE [b |-> [i \in 1..(Len(s) \div 2) |->
                    16 * fromHexChar(s[2 * i - 1]) + fromHexChar(s[2 * i])],
          err |-> nil]

\* An IDFromString without the test of the length: it copies the first
\* bytes decoded, as copy(id[:], b) does.
IDFromStringAnyLength(hexID) ==
    LET d == DecodeString(hexID)
    IN  IF d.err # nil THEN [id |-> ZeroID, err |-> ErrInvalidID]
        ELSE [id |-> [i \in 1..(idSize \div 2) |-> IF i <= Len(d.b) THEN d.b[i] ELSE 0],
              err |-> nil]

\* IDFromString: the length must be idSize and the string must decode.
IDFromString(hexID) ==
    IF Len(hexID) # idSize THEN [id |-> ZeroID, err |-> ErrInvalidID]
    ELSE LET d == DecodeString(hexID)
         IN  IF d.err # nil \/ Len(d.b) # idSize \div 2
             THEN [id |-> ZeroID, err |-> ErrInvalidID]
             ELSE [id |-> d.b, err |-> nil]

\* A String that writes the low nibble of each byte first.
StringLowNibbleFirst(id) ==
    [i \in 1..(2 * Len(id)) |->
        IF i % 2 = 1 THEN hextable[(id[(i + 1) \div 2] % 16) + 1]
        ELSE hextable[(id[i \div 2] \div 16) + 1]]

\* ID.String
String(id) == EncodeToString(id)

\* A pathFromID whose directory name has three characters.
pathFromIDLongDir(id) ==
    LET hexID == String(id)
    IN  SubSeq(hexID, 1, 3) \o <<"/">> \o SubSeq(hexID, 4, Len(hexID))

\* pathFromID: path.Join(hexID[:2], hexID[2:]); path.Join joins with "/".
pathFromID(id) ==
    LET hexID == String(id)
    IN  SubSeq(hexID, 1, 2) \o <<"/">> \o SubSeq(hexID, 3, Len(hexID))

\* filepath.Join of names on this build.
JoinSep(names) ==
    LET RECURSIVE joinFrom(_)
        joinFrom(i) == IF i > Len(names) THEN <<>>
                       ELSE IF i = Len(names) THEN names[i]
                       ELSE names[i] \o <<Separator>> \o joinFrom(i + 1)
    IN  joinFrom(1)

\* strings.Split(s, sep) for a separator of one character.
Split(s, sep) ==
    LET RECURSIVE splitFrom(_, _)
        splitFrom(i, part) ==
            IF i > Len(s) THEN <<part>>
            ELSE IF s[i] = sep THEN <<part>> \o splitFrom(i + 1, <<>>)
            ELSE splitFrom(i + 1, Append(part, s[i]))
    IN  splitFrom(1, <<>>)

\* An idFromPath that does not count the parts: it joins them all.
idFromPathAnyDepth(path) ==
    LET parts == Split(path, Separator)
        RECURSIVE concat(_)
        concat(i) == IF i > Len(parts) THEN <<>> ELSE parts[i] \o concat(i + 1)
    IN  IF Len(parts[1]) # 2 THEN [id |-> ZeroID, err |-> ErrDirLength]
        ELSE IDFromString(concat(1))

\* idFromPath: two parts, the first of two characters, together an ID.
idFromPath(path) ==
    LET parts == Split(path, Separator)
    IN  IF Len(parts) # 2 THEN [id |-> ZeroID, err |-> ErrNumDirs]
        ELSE IF Len(parts[1]) # 2 THEN [id |-> ZeroID, err |-> ErrDirLength]
        ELSE IDFromString(parts[1] \o parts[2])

(***************************************************************************)
(* SpecID: String, IDFromString, pathFromID and idFromPath applied to IDs  *)
(* and to strings, on builds for either separator.                         *)
(***************************************************************************)
\* Strings of up to idSize + MaxExtra characters are parsed.
MaxExtra == 1

\* A digit, a lower-case and an upper-case hexadecimal letter, and a letter
\* that is no hexadecimal digit.
StringChars == {"0", "a", "A", "g"}
\* The strings parsed: every string of idSize characters over StringChars,
\* and the strings of the other lengths over two of them.
HexStrings ==
    [1..idSize -> StringChars]
        \cup UNION {[1..n -> {"a", "g"}] : n \in (0..(idSize + MaxExtra)) \ {idSize}}

Separators == {"/", "\\"}

CallInputs ==
    {[kind |-> "id", id |-> x, str |-> <<>>] : x \in IDValues}
        \cup {[kind |-> "str", id |-> ZeroID, str |-> s] : s \in HexStrings}

\* The variables the calls leave alone.
idIdle == <<statVars, backend, lifeTime, Separator, prev, rec, srv, walk, disk, cache,
            maps, lock, post, tasks, handles>>

InitID ==
    /\ stats = [number |-> 0, MaxNumber |-> 0, storage |-> 0, MaxStorage |-> 0]
    /\ mu = {}
    /\ cpc = [c \in Callers |-> "idle"]
    /\ csize = [c \in Callers |-> 0]
    /\ held = [c \in Callers |-> [z \in Sizes |-> 0]]
    /\ last = [op |-> "none", size |-> 0, pre |-> stats, err |-> nil]
    /\ SvcUnused
    /\ prev = NoPrev
    /\ Separator \in Separators
    /\ call \in {[op |-> "none", arg |-> a, id |-> a.id, str |-> a.str, err |-> nil] :
                    a \in CallInputs}

\* id.String() of the ID given.
CallString ==
    /\ call.op = "none"
    /\ call.arg.kind = "id"
    /\ call' = [call EXCEPT !.op = "String", !.str = String(call.id)]
    /\ UNCHANGED idIdle

\* IDFromString of the string given, or of the string String returned.
CallIDFromString ==
    /\ \/ call.op = "none" /\ call.arg.kind = "str"
       \/ call.op = "String"
    /\ LET r == IDFromString(call.str)
       IN  call' = [call EXCEPT !.op = "IDFromString", !.id = r.id, !.err = r.err]
    /\ UNCHANGED idIdle

\* pathFromID of the ID given.
CallPathFromID ==
    /\ call.op = "none"
    /\ call.arg.kind = "id"
    /\ call' = [call EXCEPT !.op = "pathFromID", !.str = pathFromID(call.id)]
    /\ UNCHANGED idIdle

\* idFromPath of the path pathFromID returned.
CallIdFromPath ==
    /\ call.op = "pathFromID"
    /\ LET r == idFromPath(call.str)
       IN  call' = [call EXCEPT !.op = "idFromPath", !.id = r.id, !.err = r.err]
    /\ UNCHANGED idIdle

NextID ==
    \/ CallString
    \/ CallIDFromString
    \/ CallPathFromID
    \/ CallIdFromPath

SpecID == InitID /\ [][NextID]_vars

\* C25: for every ID x, IDFromString(x.String()) returns x and no error.
C25_IDRoundTrip ==
    (call.op = "IDFromString" /\ call.arg.kind = "id")
        => call.id = call.arg.id /\ call.err = nil

\* An ID whose bytes differ, with digits and letters in its hexadecimal
\* form, has come back from IDFromString(x.String()).
C25_Witness ==
    /\ call.op = "IDFromString"
    /\ call.arg.kind = "id"
    /\ call.arg.id[1] # call.arg.id[2]
    /\ \E i, j \in 1..(idSize \div 2) : call.arg.id[i] > 159 /\ call.arg.id[j] % 16 < 10
    /\ call.id = call.arg.id
    /\ Len(call.str) = idSize

\* The hexadecimal digits, and a string with its upper-case letters lowered.
HexDigits == {"0", "1", "2", "3", "4", "5", "6", "7", "8", "9",
              "a", "b", "c", "d", "e", "f", "A", "B", "C", "D", "E", "F"}
ToLower(s) ==
    [i \in 1..Len(s) |->
        IF \E k \in 1..6 : hexupper[k] = s[i]
        THEN hextable[10 + (CHOOSE k \in 1..6 : hexupper[k] = s[i])]
        ELSE s[i]]

\* C26: IDFromString returns an error for every string whose length is not
\* idSize and for every string of idSize characters one of which is no
\* hexadecimal digit; it succeeds for every string of idSize hexadecimal
\* digits in either case, and an upper-case input yields the ID of its
\* lower-case form, whose String is that lower-case form.
C26_StrictParsing ==
    (call.op = "IDFromString" /\ call.arg.kind = "str") =>
        LET s == call.arg.str
            bad == Len(s) # idSize \/ \E i \in 1..Len(s) : s[i] \notin HexDigits
        IN  /\ (call.err # nil) <=> bad
            /\ ~bad => /\ call.id = IDFromString(ToLower(s)).id
                       /\ String(call.id) = ToLower(s)

\* A string of idSize digits with letters in both cases has been parsed,
\* and differs from its lower-case form.
C26_Witness ==
    /\ call.op = "IDFromString"
    /\ call.arg.kind = "str"
    /\ call.err = nil
    /\ \E i, j, k \in 1..idSize :
          call.arg.str[i] = "A" /\ call.arg.str[j] = "a" /\ call.arg.str[k] = "0"
    /\ String(call.id) # call.arg.str

\* C28: for every ID x, pathFromID(x) is hex[0:2]/hex[2:] of x's lower-case
\* hexadecimal form, distinct IDs have distinct paths, and
\* idFromPath(pathFromID(x)) returns x and no error.
C28_PathRoundTrip ==
    /\ call.op = "pathFromID" =>
          LET hexID == String(call.arg.id)
          IN  /\ Len(hexID) = idSize
              /\ \A i \in 1..idSize : hexID[i] \in HexDigits /\ ToLower(hexID) = hexID
              /\ call.str = SubSeq(hexID, 1, 2) \o <<"/">> \o SubSeq(hexID, 3, idSize)
              /\ \A y \in IDValues : y # call.arg.id => pathFromID(y) # call.str
    /\ call.op = "idFromPath" => call.id = call.arg.id /\ call.err = nil

(***************************************************************************)
(* SpecRandomID: randomID's loop try by try.  Each try the entropy source  *)
(* fails or yields an ID, and the predicate, which may answer differently  *)
(* each time it is consulted, accepts or rejects it.                       *)
(***************************************************************************)
ridIdle == <<statVars, backend, lifeTime, Separator, prev, rec, srv, walk, disk, cache,
             maps, lock, post, tasks, handles>>

\* randomID is called: var id ID, try := 0.
InitRandomID ==
    /\ stats = [number |-> 0, MaxNumber |-> 0, storage |-> 0, MaxStorage |-> 0]
    /\ mu = {}
    /\ cpc = [c \in Callers |-> "idle"]
    /\ csize = [c \in Callers |-> 0]
    /\ held = [c \in Callers |-> [z \in Sizes |-> 0]]
    /\ last = [op |-> "none", size |-> 0, pre |-> stats, err |-> nil]
    /\ SvcUnused
    /\ prev = NoPrev
    /\ Separator = "/"
    /\ call = [op |-> "randomID", pc |-> "loop", try |-> 0, id |-> 0, err |-> nil,
               log |-> <<>>]

\* rand.Read returns an error, leaving left in the buffer: continue.
RandomIDReadErr(left) ==
    /\ call.pc = "loop"
    /\ MoreTries(call.try)
    /\ call' = [call EXCEPT !.try = @ + 1, !.id = left,
                            !.log = Append(@, [draw |-> ReadFailed, answer |-> FALSE])]
    /\ UNCHANGED ridIdle

\* rand.Read yields drawn and available(id) answers false: the next try.
RandomIDReject(drawn) ==
    /\ call.pc = "loop"
    /\ MoreTries(call.try)
    /\ call' = [call EXCEPT !.try = @ + 1, !.id = drawn,
                            !.log = Append(@, [draw |-> drawn, answer |-> FALSE])]
    /\ UNCHANGED ridIdle

\* rand.Read yields drawn and available(id) answers true: return id, nil.
RandomIDAccept(drawn) ==
    /\ call.pc = "loop"
    /\ MoreTries(call.try)
    /\ call' = [call EXCEPT !.pc = "returned", !.id = drawn, !.err = nil,
                            !.log = Append(@, [draw |-> drawn, answer |-> TRUE])]
    /\ UNCHANGED ridIdle

\* The loop is over: return id, ErrNoUnusedIDFound.
RandomIDGiveUp ==
    /\ call.pc = "loop"
    /\ ~MoreTries(call.try)
    /\ call' = [call EXCEPT !.pc = "returned", !.err = ErrNoUnusedIDFound]
    /\ UNCHANGED ridIdle

NextRandomID ==
    \/ \E left \in IDs : RandomIDReadErr(left)
    \/ \E drawn \in IDs : RandomIDReject(drawn)
    \/ \E drawn \in IDs : RandomIDAccept(drawn)
    \/ RandomIDGiveUp

SpecRandomID == InitRandomID /\ [][NextRandomID]_vars

\* The tries of the log in which the predicate was consulted, the IDs it
\* accepted and those it rejected.
Consulted(log) == {i \in 1..Len(log) : log[i].draw # ReadFailed}
Accepted(log) == {log[i].draw : i \in {j \in Consulted(log) : log[j].answer}}
Rejected(log) == {log[i].draw : i \in {j \in Consulted(log) : ~log[j].answer}}
\* The draws of the log as randomID's operator takes them, followed by the
\* draw later.
DrawsOf(log, later) ==
    [i \in 1..(randTries + 1) |-> IF i <= Len(log) THEN log[i].draw ELSE later]

\* C27: randomID consults the predicate at most randTries times; it returns,
\* without error, the first drawn ID the predicate accepts; it returns
\* ErrNoUnusedIDFound when the predicate has rejected each of the first
\* randTries draws (or the entropy source failed in their place), even if a
\* later draw would have been accepted.  For a predicate that is a set of
\* IDs, the result is the one randomID's operator computes from the draws.
C27_BoundedDraws ==
    /\ Len(call.log) <= randTries
    /\ Cardinality(Consulted(call.log)) <= randTries
    /\ call.pc = "loop" => call.try = Len(call.log) /\ call.err = nil
    /\ \A i \in 1..(Len(call.log) - 1) : ~call.log[i].answer
    /\ call.pc = "returned" =>
          LET n == Len(call.log)
          IN  /\ call.err \in {nil, ErrNoUnusedIDFound}
              /\ (call.err = nil) <=> (n >= 1 /\ call.log[n].answer)
              /\ call.err = nil => call.id = call.log[n].draw
              /\ call.err = ErrNoUnusedIDFound => n = randTries
              /\ \A later \in IDs \ Rejected(call.log) :
                    LET r == randomID(DrawsOf(call.log, later),
                                      Accepted(call.log) \cup {later})
                    IN  /\ Accepted(call.log) \cap Rejected(call.log) = {} =>
                              r.err = call.err
                        /\ call.err = nil => r.id = call.id

\* The predicate has rejected randTries draws of one ID and randomID has
\* given up, although another ID would have been accepted.
C27_Witness ==
    /\ call.pc = "returned"
    /\ call.err = ErrNoUnusedIDFound
    /\ Cardinality(Consulted(call.log)) = randTries
    /\ Cardinality(Rejected(call.log)) = 1
    /\ IDs \ Rejected(call.log) # {}

(***************************************************************************)
(* SpecWalk: the recovery walk over a data directory whose files are       *)
(* named by their paths, as filepath.Walk hands them to fileRecover's      *)
(* WalkFunc, and the same walk made once more by the next run.  No timer   *)
(* fires and nothing else writes to the directory.                         *)
(***************************************************************************)
\* The shard directory walked, two names that are IDs', and the names found
\* in it: every name of idSize - 2 letters, one too short, one too long.
ShardDir == <<"a", "a">>
GoodName == [i \in 1..(idSize - 2) |-> "a"]
OtherName == [i \in 1..(idSize - 2) |-> "0"]
WalkNames ==
    [1..(idSize - 2) -> {"a", "g"}]
        \cup {OtherName}
        \cup {[i \in 1..n |-> "a"] : n \in {idSize - 2 - MaxExtra, idSize - 2 + MaxExtra}}
\* The paths of the files found: in the shard directory, or in a directory
\* inside it.
WalkPaths ==
    {JoinSep(<<ShardDir, name>>) : name \in WalkNames}
        \cup {JoinSep(<<ShardDir, ShardDir, name>>) :
                 name \in {GoodName, SubSeq(GoodName, 1, idSize - 4)}}

\* A paste file whose modification time lies after the start of the
\* process (a clock set back, a file copied from another machine).
FutureFile == [size |-> 1, modTime |-> StartTime + 1]

\* The directories found at start: no file, one file at any path, or that
\* file and a paste of one byte that has not expired; or a paste file from
\* the future.
WalkDisks ==
    {EmptyMap}
        \cup {MapPut(EmptyMap, JoinSep(<<ShardDir, GoodName>>), FutureFile)}
        \cup {MapPut(EmptyMap, path, f) : path \in WalkPaths, f \in InitFiles}
        \cup {MapPut(MapPut(EmptyMap, JoinSep(<<ShardDir, GoodName>>),
                            [size |-> 1, modTime |-> StartTime - 1]), path, f) :
                 path \in WalkPaths, f \in InitFiles}
\* The files of d the walk may arm a timer for: named as a paste, with bytes.
Pastes(d) ==
    {path \in DOMAIN d : idFromPath(path).err = nil /\ d[path].size > 0}

\* A run that starts with the counters the run before left.
NewStatsKeepsCounters(s) == s

\* The Stats of a run that starts: the limits of the flags, counters at zero.
NewStats(s) == [s EXCEPT !.number = 0, !.storage = 0]

InitWalk ==
    /\ stats \in {[number |-> 0, MaxNumber |-> l.MaxNumber,
                   storage |-> 0, MaxStorage |-> l.MaxStorage] : l \in SvcLimits}
    /\ mu = {}
    /\ cpc = [c \in Callers |-> "idle"]
    /\ csize = [c \in Callers |-> 0]
    /\ held = [c \in Callers |-> [z \in Sizes |-> 0]]
    /\ last = [op |-> "none", size |-> 0, pre |-> stats, err |-> nil]
    /\ backend \in {"fs", "mmap"}
    /\ lifeTime \in {0, LifeTime}
    /\ Separator \in Separators
    /\ prev = NoPrev
    /\ call = NoCall
    /\ srv = "recovering"
    /\ walk = {}
    /\ rec = NoRec
    /\ disk \in {d \in WalkDisks : Cardinality(Pastes(d)) <= MaxTasks}
    /\ cache = EmptyMap
    /\ maps = {}
    /\ lock = {}
    /\ post = [w \in Workers |-> IdlePost]
    /\ tasks = EmptyMap
    /\ handles = EmptyMap

walkIdle == <<mu, cpc, csize, held, last, backend, lifeTime, Separator, call, lock, post,
              handles>>

\* fileRecover's WalkFunc on the file at path: idFromPath first, then the
\* tests of the file's age and size, the reservation, insert and the timer.
RecoverPath(path) ==
    /\ srv = "recovering"
    /\ path \in DOMAIN disk \ walk
    /\ walk' = walk \cup {path}
    /\ LET r == idFromPath(path)
           f == disk[path]
           kind == IF r.err # nil THEN "invalid" ELSE fileRecoverKind(f, stats)
       IN  /\ rec' = [id |-> r.id, kind |-> kind, path |-> path]
           /\ IF kind \in {"invalid", "failed"}
              THEN \* the walk returns the error: the constructor returns no store
                   /\ srv' = "failed"
                   /\ UNCHANGED <<stats, cache, maps, tasks, disk>>
              ELSE IF kind \in {"expired", "empty"}
              THEN \* return os.Remove(path)
                   /\ disk' = MapDelete(disk, path)
                   /\ UNCHANGED <<stats, cache, maps, tasks, srv>>
              ELSE /\ stats' = Reserve(stats, f.size)
                   /\ cache' = MapPut(cache, r.id,
                                      [NewCache(r.id, f.size, f.modTime)
                                          EXCEPT !.path = path])
                   /\ maps' = IF backend = "mmap" THEN maps \cup {r.id} ELSE maps
                   /\ tasks' = SetupPasteDeletion(tasks, r.id, f.size, LifeLeft(f.modTime))
                   /\ UNCHANGED <<disk, srv>>
    /\ UNCHANGED <<prev, walkIdle>>

\* setupSubdirs returned nil: the constructor returns the store.
RecoverPathsDone ==
    /\ srv = "recovering"
    /\ DOMAIN disk \subseteq walk
    /\ srv' = "serving"
    /\ UNCHANGED <<stats, walk, rec, disk, cache, maps, tasks, prev, walkIdle>>

\* The process ends and the next run starts at the same time on the same
\* directory: a new store, new counters, no timers.
WalkAgain ==
    /\ srv \in {"serving", "failed"}
    /\ prev = NoPrev
    /\ prev' = [run |-> "walk", srv |-> srv, walk |-> walk, cache |-> cache,
                stats |-> stats]
    /\ stats' = NewStats(stats)
    /\ srv' = "recovering"
    /\ walk' = {}
    /\ rec' = NoRec
    /\ cache' = EmptyMap
    /\ maps' = {}
    /\ tasks' = EmptyMap
    /\ UNCHANGED <<disk, walkIdle>>

NextWalk ==
    \/ \E path \in WalkPaths : RecoverPath(path)
    \/ RecoverPathsDone
    \/ WalkAgain

SpecWalk == InitWalk /\ [][NextWalk]_vars

\* A path that names a paste: a directory of two characters, the separator
\* and a name, which together are idSize hexadecimal digits.
NamesPaste(path) ==
    /\ Len(path) = idSize + 1
    /\ path[3] = Separator
    /\ \A i \in (1..Len(path)) \ {3} : path[i] \in HexDigits

\* C21: when the walk meets a file whose path is not a two-character
\* directory and a name that together are a valid ID, recovery fails there:
\* the constructor returns an error and no store, whatever the file's age
\* and size, and nothing is indexed, reserved, armed or removed for it.
C21_BadPathIsFatal ==
    /\ [][\A path \in DOMAIN disk \ walk :
             (path \in walk' /\ ~NamesPaste(path))
                 => /\ srv' = "failed"
                    /\ cache' = cache
                    /\ stats' = stats
                    /\ tasks' = tasks
                    /\ disk' = disk]_vars
    /\ [](srv = "serving" => \A path \in DOMAIN disk : NamesPaste(path))

\* The walk has indexed a paste and then failed at a file that lies in a
\* directory inside the shard directory, whose names together are an ID.
C21_Witness ==
    /\ srv = "failed"
    /\ prev = NoPrev
    /\ rec.kind = "invalid"
    /\ rec.path = JoinSep(<<ShardDir, ShardDir, SubSeq(GoodName, 1, idSize - 4)>>)
    /\ rec.path \in DOMAIN disk
    /\ DOMAIN cache # {}
    /\ stats.number = 1

\* C22: the recovery walk made twice over the same directory with the same
\* start time, nothing else writing to it, has the same outcome both times:
\* it fails both times or returns both times a store with the same indexed
\* IDs, the same ModTime and Size in each record, and the same number and
\* storage.
C22_IdempotentRecovery ==
    (prev.run = "walk" /\ srv \in {"serving", "failed"}) =>
        /\ srv = prev.srv
        /\ srv = "serving" =>
              /\ DOMAIN cache = DOMAIN prev.cache
              /\ \A id \in DOMAIN cache :
                    /\ cache[id].modTime = prev.cache[id].modTime
                    /\ cache[id].size = prev.cache[id].size
              /\ stats.number = prev.stats.number
              /\ stats.storage = prev.stats.storage

\* The second walk has returned a store that indexes a paste, over a
\* directory from which the first walk removed a file.
C22_Witness ==
    /\ prev.run = "walk"
    /\ srv = "serving"
    /\ DOMAIN cache # {}
    /\ stats.number = 1
    /\ prev.walk # walk
    /\ lifeTime > 0

\* C33: every cache record the recovery walk inserts has a ModTime no later
\* than the start time of the process, whatever the modification time of
\* its file.
C33_RecoveredModTimeClamped ==
    \A id \in DOMAIN cache : cache[id].modTime <= StartTime

(***************************************************************************)
(* Properties of the store and of the upload handler.                      *)
(***************************************************************************)
OpenOn(id) == {h \in DOMAIN handles : handles[h].id = id}

\* C1: Delete never removes the backing file, nor unmaps the mapping, of an
\* ID while a handle an earlier Get returned for it is still open: every open
\* handle's file is on disk and, in the mmap store, still mapped.
C1_NoPrematureInvalidation ==
    \A h \in DOMAIN handles :
        /\ handles[h].id \in DOMAIN disk
        /\ backend = "mmap" => handles[h].id \in maps

\* C2: a Delete that was invoked while a handle on its ID was open does not
\* return before that handle is closed: at the step where Delete returns,
\* no handle on its ID is open.
C2_DeleteWaitsForClose ==
    [][\A t \in DOMAIN tasks :
          (tasks[t].pc = "wait" /\ (t \notin DOMAIN tasks' \/ tasks'[t].pc # "wait"))
              => OpenOn(tasks[t].id) = {}]_vars

\* No upload, no deletion and no recovery is in progress: the store is
\* serving, every handler is idle and every deletion timer is still pending.
Quiescent ==
    /\ srv = "serving"
    /\ \A w \in Workers : post[w].pc = "idle"
    /\ \A t \in DOMAIN tasks : tasks[t].pc = "timer"
    /\ lock = {}

CacheSizes == SumOver([id \in DOMAIN cache |-> cache[id].size], DOMAIN cache)

\* C3: in every quiescent state Stats.number is the number of cache records
\* and Stats.storage is the sum of their sizes.
C3_StoreAccounting ==
    Quiescent => /\ stats.number = Cardinality(DOMAIN cache)
                 /\ stats.storage = CacheSizes

\* C4: an upload whose capacity reservation failed is rejected before
\* store.Put: no handler is past store.Put with a failed reservation.
C4_RejectedBeforePut ==
    \A w \in Workers : post[w].pc = "done" => post[w].resv = nil

\* C5 as stated: when store.Put has returned an error after a successful
\* reservation, no cache record exists for the ID it drew.
C5_NoRecordForDrawnID ==
    \A w \in Workers :
        (post[w].pc = "done" /\ post[w].err # nil /\ post[w].resv = nil)
            => post[w].id \notin DOMAIN cache

\* C5, amended: for an upload whose reservation succeeded, the reservation
\* adds exactly 1 and size, a store.Put that returns an error leaves the
\* cache, the mappings and the counters as they were (it inserts no record),
\* and the handler's rollback subtracts exactly 1 and size and touches no
\* record: the upload's net effect on number and storage is zero.
C5_RollbackOnFailedPut ==
    [][\A w \in Workers :
          /\ (post[w].pc = "idle" /\ post'[w].pc = "put" /\ post'[w].resv = nil)
                => /\ stats'.number = stats.number + 1
                   /\ stats'.storage = stats.storage + post'[w].size
          /\ (post[w].pc = "put" /\ post[w].resv = nil
              /\ post'[w].pc = "done" /\ post'[w].err # nil)
                => /\ cache' = cache
                   /\ maps' = maps
                   /\ stats' = stats
          /\ (post[w].pc = "done" /\ post[w].resv = nil /\ post[w].err # nil
              /\ post'[w].pc = "idle")
                => /\ stats'.number = stats.number - 1
                   /\ stats'.storage = stats.storage - post[w].size
                   /\ cache' = cache]_vars

\* store.Put has failed on the file system after a successful reservation,
\* with records in the store, and the handler is about to roll back.
C5_Witness ==
    \E w \in Workers :
        /\ post[w].pc = "done"
        /\ post[w].resv = nil
        /\ post[w].err \in {EIO, EEXIST}
        /\ stats.number = Cardinality(DOMAIN cache) + 1
        /\ DOMAIN cache # {}

(***************************************************************************)
(* Properties of the deletion scheduler and of recovery.                   *)
(***************************************************************************)
\* The tasks whose timer has fired: f has called s.Delete at least once.
Fired == {t \in DOMAIN tasks : tasks[t].pc # "timer"}

\* C11: with a lifetime of 0 the scheduler never calls Delete on any paste,
\* whether Put created it or the recovery walk indexed it: no deletion
\* timer ever fires.
C11_InfiniteLifetime == lifeTime = 0 => Fired = {}

\* The scheduling the timers' goroutines get: a timer that is due fires, a
\* goroutine that can run does, and one waiting for the store's mutex gets it.
TaskFairness ==
    \A t \in TaskSlots :
        /\ SF_vars(DeleteBegin(t))
        /\ WF_vars(\E io \in {"ok", "unmap_err", "remove_err"} : DeleteFinish(t, io))
        /\ WF_vars(DeleteFree(t))

SpecFair == Spec /\ TaskFairness

\* One step of task t's function f, seen from outside: a Delete attempt that
\* fails is counted, the retry loop ends after deleteRetries retries, and
\* after the first success nothing but the release of the capacity follows.
TaskStep(t) ==
    LET a == tasks[t]
        gone == t \notin DOMAIN tasks'
        b == tasks'[t]
    IN  (gone \/ b # a) =>
            \/ a.pc \in {"timer", "retry"} /\ ~gone /\ b.pc = "wait" /\ b.tries = a.tries
            \/ a.pc = "wait" /\ ~gone /\ b.pc = "free" /\ b.tries = a.tries
            \/ a.pc # "free" /\ ~gone /\ b.pc = "retry" /\ b.tries = a.tries + 1
            \/ a.pc # "free" /\ gone /\ a.tries = deleteRetries
            \/ a.pc = "free" /\ gone

\* C12: once a paste's timer has fired the scheduler makes one Delete
\* attempt and at most deleteRetries retries (every failed attempt is
\* counted, and the count never exceeds deleteRetries), makes no attempt
\* after the first success, and always terminates.
C12_BoundedRetry ==
    /\ [](\A t \in DOMAIN tasks : tasks[t].tries <= deleteRetries)
    /\ [][\A t \in DOMAIN tasks : TaskStep(t)]_vars
    /\ \A t \in TaskSlots : (t \in Fired) ~> (t \notin DOMAIN tasks \/ srv = "failed")

\* The scheduler is about to make its last retry: deleteRetries attempts
\* have failed since the timer fired.
C12_Witness ==
    \E t \in DOMAIN tasks :
        /\ tasks[t].pc = "retry"
        /\ tasks[t].tries = deleteRetries
        /\ tasks[t].err = ErrPasteNotFound


\* C13: a Delete that returned an I/O error (Unmap or os.Remove failed)
\* leaves the paste live: while that error is the scheduler's last result,
\* the paste's cache record is still present.
C13_FailedDeleteLeavesLive ==
    \A t \in DOMAIN tasks : tasks[t].err = EIO => tasks[t].id \in DOMAIN cache


\* C16: a Delete for an ID that has no cache record returns
\* ErrPasteNotFound (which the scheduler counts as a failed attempt) and
\* changes nothing: cache, mappings, counters and files stay as they were.
C16_DeleteMissingChangesNothing ==
    [][\A t \in DOMAIN tasks :
          (/\ tasks[t].pc \in {"timer", "retry"}
           /\ tasks[t].id \notin DOMAIN cache
           /\ (t \notin DOMAIN tasks' \/ tasks'[t] # tasks[t]))
              => /\ \/ t \notin DOMAIN tasks' /\ tasks[t].tries = deleteRetries
                    \/ /\ t \in DOMAIN tasks'
                       /\ tasks'[t].pc = "retry"
                       /\ tasks'[t].err = ErrPasteNotFound
                 /\ cache' = cache
                 /\ maps' = maps
                 /\ stats' = stats
                 /\ disk' = disk]_vars

\* A retry of the scheduler has called Delete for an ID without a record
\* and got ErrPasteNotFound, while the paste's file and its reservation
\* are still there.
C16_Witness ==
    \E t \in DOMAIN tasks :
        /\ tasks[t].pc = "retry"
        /\ tasks[t].err = ErrPasteNotFound
        /\ tasks[t].id \notin DOMAIN cache
        /\ tasks[t].id \in DOMAIN disk
        /\ stats.number >= 1


\* The step in which the recovery walk handles the file of ID walk.
RecoverStep ==
    /\ srv = "recovering"
    /\ walk \in DOMAIN disk
    /\ (walk' # walk \/ srv' # srv)

TimersOf(ts, id) == {t \in DOMAIN ts : ts[t].id = id}

C20_FullRecoveryIsFatal ==
    /\ [][(/\ RecoverStep
           /\ ~(lifeTime > 0 /\ disk[walk].modTime + lifeTime <= StartTime)
           /\ disk[walk].size > 0
           /\ MakeSpaceForErr(stats, disk[walk].size) # nil)
             => /\ srv' = "failed"
                /\ cache' = cache
                /\ stats' = stats
                /\ tasks' = tasks]_vars
    /\ [][srv = "failed" => srv' = "failed"]_vars
    /\ [](srv = "failed" =>
             /\ \A w \in Workers : post[w].pc = "idle"
             /\ handles = EmptyMap)

\* The walk has met a file larger than the storage limit allows and the
\* constructor has failed.
C20_Witness ==
    /\ srv = "failed"
    /\ rec.kind = "failed"
    /\ rec.id \in DOMAIN disk
    /\ rec.id \notin DOMAIN cache
    /\ stats.MaxStorage > 0
    /\ stats.storage + disk[rec.id].size > stats.MaxStorage

\* C29: the reader count of the store's record for an ID is the number of
\* handles that Get returned for the ID and that are not yet closed, and so
\* is the count a Delete of the ID waits on.
C29_ReaderCount ==
    /\ \A id \in DOMAIN cache : cache[id].reading = Cardinality(OpenOn(id))
    /\ \A t \in DOMAIN tasks :
          tasks[t].pc = "wait" => tasks[t].reading = Cardinality(OpenOn(tasks[t].id))

\* C30: a reservation is released once, and only when its paste's deletion
\* has succeeded.  The counters go down in two kinds of step only: the
\* scheduler's release after a Delete that returned nil, by the paste's
\* size, with which the paste's timer function ends; and the handler's
\* rollback of a Put that failed, which arms no timer.  Delete itself
\* releases nothing: when it returns nil the record and the file are gone and
\* the counters are as before; an attempt that returns an error, or the
\* giving up, leaves the counters alone.
C30_ExactlyOnceRelease ==
    [][/\ \A t \in DOMAIN tasks :
             LET a == tasks[t]
                 gone == t \notin DOMAIN tasks'
             IN  /\ (a.pc = "free" /\ gone) => stats' = FreeSpace(stats, a.size)
                 /\ (a.pc = "free" /\ ~gone) => tasks'[t] = a
                 /\ (a.pc # "free" /\ (gone \/ tasks'[t] # a)) => stats' = stats
                 /\ (a.pc = "wait" /\ ~gone /\ tasks'[t].pc = "free")
                       => /\ a.id \notin DOMAIN cache'
                          /\ a.id \notin DOMAIN disk'
       /\ (stats'.number < stats.number \/ stats'.storage < stats.storage)
             => \/ \E t \in DOMAIN tasks : tasks[t].pc = "free" /\ t \notin DOMAIN tasks'
                \/ \E w \in Workers :
                      /\ post[w].pc = "done"
                      /\ post[w].err # nil
                      /\ post'[w] = IdlePost
                      /\ stats' = FreeSpace(stats, post[w].size)
                      /\ tasks' = tasks]_vars

\* The walk indexed the file of ID 0 and reserved its size; since then the
\* paste's timer has fired, its Delete has succeeded and the scheduler has
\* released the reservation: the counters are back at zero.
C30_Witness ==
    /\ rec = [id |-> 0, kind |-> "indexed"]
    /\ lifeTime > 0
    /\ tasks = EmptyMap
    /\ 0 \notin DOMAIN cache
    /\ 0 \notin DOMAIN disk
    /\ stats.number = 0
    /\ stats.storage = 0

\* C24: with a nonzero lifetime every paste that has a deletion timer is in
\* the end deleted, unless every Delete attempt of the retry budget fails (or
\* the process ends because recovery failed).  The timer's function always
\* ends; it ends either after a Delete that returned nil, and then by
\* releasing the paste's capacity, or after 1 + deleteRetries attempts that
\* all failed; and when Delete returns nil the cache record, the file and
\* the mapping of the paste are gone.
C24_ExpiryLiveness ==
    /\ \A t \in TaskSlots :
          (lifeTime > 0 /\ t \in DOMAIN tasks) ~> (t \notin DOMAIN tasks \/ srv = "failed")
    /\ [][\A t \in DOMAIN tasks :
             /\ t \notin DOMAIN tasks'
                   => \/ /\ tasks[t].pc = "free"
                         /\ stats' = FreeSpace(stats, tasks[t].size)
                      \/ /\ tasks[t].pc # "free"
                         /\ tasks[t].tries = deleteRetries
                         /\ stats' = stats
             /\ (t \in DOMAIN tasks' /\ tasks[t].pc # "free" /\ tasks'[t].pc = "free")
                   => /\ tasks[t].id \notin DOMAIN cache'
                      /\ tasks[t].id \notin DOMAIN disk'
                      /\ tasks[t].id \notin maps']_vars

\* A paste the handler stored with the lifetime LifeTime: its timer has
\* fired, Delete has returned nil at the first attempt, record and file are
\* gone and the release of its capacity is due.
C24_Witness ==
    \E t \in DOMAIN tasks :
        /\ lifeTime > 0
        /\ tasks[t].after = lifeTime
        /\ tasks[t].pc = "free"
        /\ tasks[t].tries = 0
        /\ tasks[t].id \notin DOMAIN cache
        /\ tasks[t].id \notin DOMAIN disk
        /\ stats.number = 1

(***************************************************************************)
(* SpecRestart: the service, and the process ending and starting once more *)
(* on the data directory it leaves, with the same flags.  The next run is  *)
(* followed up to the return of its constructor: the walk, and the timers  *)
(* the walk arms, which run beside it.                                     *)
(***************************************************************************)
\* The files of d that hold bytes and whose life left is not 0: those for
\* which the walk of the next run arms a timer, unless it removes them.
TimedFiles(d) == {id \in NonEmptyFiles(d) : LifeLeft(d[id].modTime) # 0}

\* The process ends while it serves; the next run starts at once: new
\* counters, an empty index, no timers, no handlers, the files as they are.
\* (The directory holds no more files than the next run has timers for.)
Restart ==
    /\ srv = "serving"
    /\ prev = NoPrev
    /\ Cardinality(TimedFiles(disk)) <= MaxTasks
    /\ prev' = [run |-> "restart", srv |-> srv, walk |-> {}, cache |-> cache,
                stats |-> EmptyMap]
    /\ stats' = NewStats(stats)
    /\ srv' = "recovering"
    /\ walk' = 0
    /\ rec' = NoRec
    /\ cache' = EmptyMap
    /\ maps' = {}
    /\ lock' = {}
    /\ post' = [w \in Workers |-> IdlePost]
    /\ tasks' = EmptyMap
    /\ handles' = EmptyMap
    /\ UNCHANGED <<mu, cpc, csize, held, last, backend, lifeTime, Separator, call, disk>>

\* A step of the next run before its constructor has returned.
Restarted == prev # NoPrev /\ srv = "recovering"

NextRestart ==
    \/ prev = NoPrev /\ Next
    \/ Restart
    \/ Restarted /\ RecoverFile
    \/ Restarted /\ RecoverSkip
    \/ Restarted /\ RecoverDone
    \/ Restarted /\ \E t \in TaskSlots : DeleteBegin(t)
    \/ Restarted /\ \E t \in TaskSlots, io \in {"ok", "unmap_err", "remove_err"} :
                        DeleteFinish(t, io)
    \/ Restarted /\ \E t \in TaskSlots : DeleteFree(t)

SpecRestart == Init /\ [][NextRestart]_vars

\* C23: the pastes the store indexed when the process ended are there when
\* the next run's constructor returns: the constructor returns a store, and
\* with a lifetime of 0, under which no paste expires, that store indexes
\* every one of them under its ID with its size, its file holding as many
\* bytes.
C23_PersistsAcrossRestart ==
    [][(prev.run = "restart" /\ srv = "recovering" /\ srv' # "recovering")
          => /\ srv' = "serving"
             /\ lifeTime = 0 =>
                   \A id \in DOMAIN prev.cache :
                       /\ id \in DOMAIN cache'
                       /\ cache'[id].size = prev.cache[id].size
                       /\ id \in DOMAIN disk'
                       /\ disk'[id].size = prev.cache[id].size]_vars

\* C31: no insertion into and no removal from the store's index is made
\* while another goroutine holds the store's exclusive lock: a step of the
\* running process that changes the set of indexed IDs starts with the lock
\* free, and takes it.
C31_IndexChangesUnderLock ==
    [][(DOMAIN cache' # DOMAIN cache /\ prev' = prev) => lock = {}]_vars

\* C32: a store.Put that draws an ID at whose path a file exists returns an
\* error, leaves every file as it was and inserts no cache record; and no
\* Put ever rewrites a file that was there before it.
C32_ExclusiveCreate ==
    [][\A w \in Workers :
          (post[w].pc = "put" /\ post'[w].pc = "done")
              => /\ post'[w].id \in DOMAIN disk
                    => /\ post'[w].err # nil
                       /\ disk' = disk
                       /\ cache' = cache
                       /\ maps' = maps
                 /\ \A id \in DOMAIN disk : id \in DOMAIN disk' /\ disk'[id] = disk[id]]_vars

\* Put has drawn an ID that has no cache record but whose file a Delete
\* that failed in os.Remove left behind, and has returned the error of the
\* exclusive create.
C32_Witness ==
    \E w \in Workers :
        /\ post[w].pc = "done"
        /\ post[w].err = EEXIST
        /\ post[w].id \in DOMAIN disk
        /\ post[w].id \notin DOMAIN cache
        /\ disk[post[w].id].modTime < Now

(***************************************************************************)
(* SpecGet: the service with lifetime LifeTime and no limits, and the Gets *)
(* that return an error; call notes the last of them.                      *)
(***************************************************************************)
InitGet ==
    /\ Init
    /\ lifeTime = LifeTime
    /\ stats.MaxNumber = 0
    /\ stats.MaxStorage = 0

getIdle == <<statVars, backend, lifeTime, Separator, prev, rec, srv, walk, disk, cache,
             maps, lock, post, tasks>>

\* A Get that takes its reading before it opens the file and keeps it when
\* the open fails.
GetOpenErrKeepsReading(id) ==
    /\ srv = "serving"
    /\ lock = {}
    /\ backend = "fs"
    /\ id \in DOMAIN cache
    /\ FreeHandleSlots # {}
    /\ call' = [op |-> "Get", id |-> id, err |-> EIO]
    /\ handles' = MapPut(handles, MinOf(FreeHandleSlots),
                         [id |-> id, reading |-> ReadingAdd(cache[id]).reading])
    /\ UNCHANGED getIdle

\* FileStore.Get finds the record and os.Open fails: return nil, err.
GetOpenErr(id) ==
    /\ srv = "serving"
    /\ lock = {}
    /\ backend = "fs"
    /\ id \in DOMAIN cache
    /\ call' = [op |-> "Get", id |-> id, err |-> EIO]
    /\ UNCHANGED <<handles, getIdle>>

\* Get finds no record: return nil, ErrPasteNotFound.
GetNotFound(id) ==
    /\ srv = "serving"
    /\ lock = {}
    /\ id \notin DOMAIN cache
    /\ call' = [op |-> "Get", id |-> id, err |-> ErrPasteNotFound]
    /\ UNCHANGED <<handles, getIdle>>

NextGet ==
    \/ Next
    \/ \E id \in IDs : GetOpenErr(id)
    \/ \E id \in IDs : GetNotFound(id)

SpecGet == InitGet /\ [][NextGet]_vars

\* C35: a Get that returns an error (no record for the ID, or the file
\* cannot be opened) opens no handle, takes no reading and changes neither
\* the index, the files, the mappings, the counters nor the timers; and a
\* Delete waits for no reader on account of it: the count it waits on is
\* never more than the handles open on its ID.
C35_FailedGetChangesNothing ==
    /\ [][call' # call
             => /\ handles' = handles
                /\ cache' = cache
                /\ disk' = disk
                /\ maps' = maps
                /\ stats' = stats
                /\ tasks' = tasks
                /\ lock' = lock]_vars
    /\ [](\A t \in DOMAIN tasks : tasks[t].reading <= Cardinality(OpenOn(tasks[t].id)))
    /\ [](\A id \in DOMAIN cache : cache[id].reading <= Cardinality(OpenOn(id)))

\* After a Get of an indexed paste has failed in os.Open, the paste's timer
\* has fired and its Delete, waiting for no reader, has removed the file.
C35_Witness ==
    \E t \in DOMAIN tasks :
        /\ call = [op |-> "Get", id |-> tasks[t].id, err |-> EIO]
        /\ tasks[t].pc = "free"
        /\ tasks[t].id \notin DOMAIN disk
        /\ handles = EmptyMap

\* C36: a timer's Delete removes a record only of the paste the timer was
\* armed for (the record's size is the timer's, and the timer's delay is
\* the life that paste had left), and only when pastes have a lifetime that
\* can elapse: with a lifetime of 0 no paste is ever removed.
C36_NoEarlyDeletion ==
    [][\A t \in DOMAIN tasks \cap DOMAIN tasks' :
          (tasks[t].pc \in {"timer", "retry"} /\ tasks'[t].pc = "wait")
              => /\ lifeTime > 0
                 /\ tasks[t].size = cache[tasks[t].id].size
                 /\ tasks[t].after = LifeLeft(cache[tasks[t].id].modTime)]_vars

\* C37: a Delete that holds the store's exclusive lock is never stuck with
\* the Close of a handle on its ID: every open handle can be closed whoever
\* holds the lock; while the process runs, a Delete at its wait either has
\* no reader to wait for or a handle on its ID whose Close can run; and
\* every Delete that holds the lock gives it back (unless the process ends
\* first because recovery failed).
C37_DrainWaitNoDeadlock ==
    /\ [](\A h \in DOMAIN handles : ENABLED Close(h))
    /\ [](srv # "failed" =>
             \A t \in lock :
                \/ ENABLED (\E io \in {"ok", "unmap_err", "remove_err"} : DeleteFinish(t, io))
                \/ \E h \in OpenOn(tasks[t].id) : ENABLED Close(h))
    /\ \A t \in TaskSlots : (t \in lock) ~> (t \notin lock \/ srv = "failed")

\* A Delete holds the store's lock at its wait while a handle on its ID is
\* open.
C37_Witness ==
    \E t \in lock :
        /\ tasks[t].pc = "wait"
        /\ OpenOn(tasks[t].id) # {}

\* C38: after a store.Put that failed in the operating system (OpenFile,
\* Write, Close or Map returned an error) no file is left at the path of
\* the ID it drew.
C38_FailedPutLeavesNoFile ==
    \A w \in Workers :
        (post[w].pc = "done" /\ post[w].err = EIO) => post[w].id \notin DOMAIN disk

(***************************************************************************)
(* SpecBuffer: one bufferContent, the reader over a paste's buffer or      *)
(* mapping (src/storage_mem.go), and the calls made on it in sequence.     *)
(***************************************************************************)
\* Most calls made on one bufferContent.
MaxCalls == 3

EOF == "EOF"
ErrNegativeOffset == "pastecat.bufferContent.ReadAt: negative offset"
ErrInvalidWhence == "pastecat.bufferContent.Seek: invalid whence"
ErrNegativePosition == "pastecat.bufferContent.Seek: negative position"

MinInt(a, b) == IF a < b THEN a ELSE b

\* What the caller's bufferContent c is after a method that left its own
\* receiver as local: Read, ReadAt and Seek have the value receiver
\* (c bufferContent), they work on a copy and the caller's value stays.
ValueReceiver(c, local) == c

\* func (c bufferContent) Read(p []byte), lenp = len(p).
bufferContentRead(c, lenp) ==
    IF lenp = 0 THEN [n |-> 0, err |-> nil, data |-> <<>>, c |-> c]
    ELSE IF c.i >= Len(c.b) THEN [n |-> 0, err |-> EOF, data |-> <<>>, c |-> c]
    ELSE LET n == MinInt(lenp, Len(c.b) - c.i)
         IN  [n |-> n, err |-> nil, data |-> SubSeq(c.b, c.i + 1, c.i + n),
              c |-> ValueReceiver(c, [c EXCEPT !.i = @ + n])]

\* func (c bufferContent) ReadAt(p []byte, off int64).
bufferContentReadAt(c, lenp, off) ==
    IF off < 0 THEN [n |-> 0, err |-> ErrNegativeOffset, data |-> <<>>, c |-> c]
    ELSE IF off >= Len(c.b) THEN [n |-> 0, err |-> EOF, data |-> <<>>, c |-> c]
    ELSE LET n == MinInt(lenp, Len(c.b) - off)
         IN  [n |-> n, err |-> IF n < lenp THEN EOF ELSE nil,
              data |-> SubSeq(c.b, off + 1, off + n), c |-> c]

\* func (c bufferContent) Seek(offset int64, whence int).
bufferContentSeek(c, offset, whence) ==
    LET i == IF whence = 0 THEN offset
             ELSE IF whence = 1 THEN c.i + offset
             ELSE Len(c.b) + offset
    IN  IF whence \notin {0, 1, 2} THEN [i |-> 0, err |-> ErrInvalidWhence, c |-> c]
        ELSE IF i < 0 THEN [i |-> 0, err |-> ErrNegativePosition, c |-> c]
        ELSE [i |-> i, err |-> nil, c |-> ValueReceiver(c, [c EXCEPT !.i = i])]

\* content := bufferContent{b: cached.buffer}: the position starts at 0.
\* base is the position the last successful Seek returned, out the bytes
\* the Reads since then returned, eof whether the last of them said EOF.
InitBuffer ==
    /\ stats = [number |-> 0, MaxNumber |-> 0, storage |-> 0, MaxStorage |-> 0]
    /\ mu = {}
    /\ cpc = [c \in Callers |-> "idle"]
    /\ csize = [c \in Callers |-> 0]
    /\ held = [c \in Callers |-> [z \in Sizes |-> 0]]
    /\ last = [op |-> "none", size |-> 0, pre |-> stats, err |-> nil]
    /\ SvcUnused
    /\ prev = NoPrev
    /\ Separator = "/"
    /\ call \in {[op |-> "bufferContent", c |-> [b |-> b, i |-> 0], calls |-> 0,
                  base |-> 0, out |-> <<>>, eof |-> FALSE] : b \in Contents}

\* content.Read(p) with len(p) = lenp.
BufRead(lenp) ==
    /\ call.op = "bufferContent"
    /\ call.calls < MaxCalls
    /\ LET r == bufferContentRead(call.c, lenp)
       IN  call' = [call EXCEPT !.c = r.c, !.calls = @ + 1, !.out = @ \o r.data,
                                !.eof = (r.err = EOF)]
    /\ UNCHANGED idIdle

\* content.ReadAt(p, off): it moves no position.
BufReadAt(lenp, off) ==
    /\ call.op = "bufferContent"
    /\ call.calls < MaxCalls
    /\ LET r == bufferContentReadAt(call.c, lenp, off)
       IN  call' = [call EXCEPT !.c = r.c, !.calls = @ + 1]
    /\ UNCHANGED idIdle

\* content.Seek(offset, whence).
BufSeek(offset, whence) ==
    /\ call.op = "bufferContent"
    /\ call.calls < MaxCalls
    /\ LET r == bufferContentSeek(call.c, offset, whence)
       IN  call' = IF r.err # nil
                   THEN [call EXCEPT !.c = r.c, !.calls = @ + 1]
                   ELSE [call EXCEPT !.c = r.c, !.calls = @ + 1, !.base = r.i,
                                     !.out = <<>>, !.eof = FALSE]
    /\ UNCHANGED idIdle

NextBuffer ==
    \/ \E lenp \in 0..MaxLen : BufRead(lenp)
    \/ \E lenp \in 0..MaxLen, off \in (0 - 1)..MaxLen : BufReadAt(lenp, off)
    \/ \E offset \in (0 - MaxLen)..MaxLen, whence \in 0..3 : BufSeek(offset, whence)

SpecBuffer == InitBuffer /\ [][NextBuffer]_vars

\* C39: the position of a bufferContent is the position its last Seek set
\* plus the number of bytes its Reads have returned since; those bytes are
\* the content's bytes from that position on, in order, each once; and a
\* Read says EOF only when the position is at the end of the content.
C39_SequentialReads ==
    call.op = "bufferContent" =>
        /\ call.c.i = call.base + Len(call.out)
        /\ call.base + Len(call.out) <= Len(call.c.b)
              => call.out = SubSeq(call.c.b, call.base + 1, call.base + Len(call.out))
        /\ call.base <= Len(call.c.b) => call.base + Len(call.out) <= Len(call.c.b)
        /\ call.eof => call.base + Len(call.out) >= Len(call.c.b)

\* C40: in every state of the running service the counters are not
\* negative: Stats.number >= 0 and Stats.storage >= 0.
C40_CountersNonNegative ==
    /\ stats.number >= 0
    /\ stats.storage >= 0

(***************************************************************************)
(* Properties of Stats.                                                    *)
(***************************************************************************)
\* C6: under any interleaving of MakeSpaceFor and FreeSpace callers, with
\* counters starting at zero, a positive maximum is never exceeded, neither
\* by the counters nor by the reservations that succeeded and are not yet
\* released (two reservations that together exceed a limit never both
\* succeed), and no successful reservation's increment is lost.
C6_NoOverCommit ==
    /\ stats.MaxNumber > 0 =>
           stats.number <= stats.MaxNumber /\ HeldCount <= stats.MaxNumber
    /\ stats.MaxStorage > 0 =>
           stats.storage <= stats.MaxStorage /\ HeldSum <= stats.MaxStorage
    /\ stats.number >= HeldCount
    /\ stats.storage >= HeldSum

\* The reservations held fill the count limit, and the reservation another
\* caller asked for was refused.
C6_Witness ==
    /\ stats.MaxNumber > 0
    /\ HeldCount = stats.MaxNumber
    /\ \E c \in Callers : HeldBy(c) = 0
    /\ last.op = "MakeSpaceFor" /\ last.err = ErrReachedMaxNumber

\* C7: MakeSpaceFor returns ErrReachedMaxNumber exactly when MaxNumber > 0
\* and number >= MaxNumber; otherwise ErrReachedMaxStorage exactly when
\* MaxStorage > 0 and storage + size > MaxStorage; otherwise nil.
C7_ErrorChoice ==
    last.op = "MakeSpaceFor" =>
        LET p == last.pre
            full == p.MaxNumber > 0 /\ p.number >= p.MaxNumber
            over == p.MaxStorage > 0 /\ p.storage + last.size > p.MaxStorage
        IN  /\ (last.err = ErrReachedMaxNumber) <=> full
            /\ (last.err = ErrReachedMaxStorage) <=> (~full /\ over)
            /\ (last.err = nil) <=> (~full /\ ~over)

\* Both limits are violated and the count error is the one returned.
C7_Witness ==
    /\ last.op = "MakeSpaceFor"
    /\ last.pre.MaxNumber > 0 /\ last.pre.number >= last.pre.MaxNumber
    /\ last.pre.MaxStorage > 0 /\ last.pre.storage + last.size > last.pre.MaxStorage
    /\ last.err = ErrReachedMaxNumber

\* C8: a MakeSpaceFor call that returns an error leaves number and storage
\* unchanged; one that returns nil adds exactly 1 to number and exactly size
\* to storage, in one step; the maxima are never changed.
C8_ErrorLeavesCounters ==
    last.op = "MakeSpaceFor" =>
        /\ stats.MaxNumber = last.pre.MaxNumber
        /\ stats.MaxStorage = last.pre.MaxStorage
        /\ IF last.err = nil
           THEN /\ stats.number = last.pre.number + 1
                /\ stats.storage = last.pre.storage + last.size
           ELSE /\ stats.number = last.pre.number
                /\ stats.storage = last.pre.storage

\* A call of positive size was refused for storage with nonzero counters.
C8_Witness ==
    /\ last.op = "MakeSpaceFor"
    /\ last.err = ErrReachedMaxStorage
    /\ last.size > 0
    /\ stats.number > 0 /\ stats.storage > 0

\* C9: with every FreeSpace matching an earlier successful MakeSpaceFor,
\* number is at every point the count of successful reservations not yet
\* released and storage the sum of their sizes; capacity that was freed is
\* available again: a reservation that fits the unreleased ones is granted.
C9_Conservation ==
    /\ stats.number = HeldCount
    /\ stats.storage = HeldSum
    /\ \A size \in Sizes :
          (/\ stats.MaxNumber > 0 => HeldCount < stats.MaxNumber
           /\ stats.MaxStorage > 0 => HeldSum + size <= stats.MaxStorage)
          => MakeSpaceForErr(stats, size) = nil

\* A reservation was released from a full store and its room is free again.
C9_Witness ==
    /\ last.op = "FreeSpace"
    /\ last.size > 0
    /\ stats.MaxNumber > 0 /\ last.pre.number = stats.MaxNumber
    /\ stats.MaxStorage > 0 /\ last.pre.storage = stats.MaxStorage
    /\ MakeSpaceForErr(last.pre, last.size) = ErrReachedMaxNumber
    /\ MakeSpaceForErr(stats, last.size) = nil

\* C10: a zero maximum means unbounded: with MaxNumber = 0 MakeSpaceFor
\* never returns ErrReachedMaxNumber, and with MaxStorage = 0 it never
\* returns ErrReachedMaxStorage, whatever the counters and the size are.
C10_ZeroIsUnbounded ==
    last.op = "MakeSpaceFor" =>
        /\ last.pre.MaxNumber = 0 => last.err # ErrReachedMaxNumber
        /\ last.pre.MaxStorage = 0 => last.err # ErrReachedMaxStorage

\* Both maxima are zero, the counters are positive, and the call succeeded.
C10_Witness ==
    /\ last.op = "MakeSpaceFor"
    /\ last.pre.MaxNumber = 0 /\ last.pre.number > 0
    /\ last.pre.MaxStorage = 0 /\ last.pre.storage + last.size > 0
    /\ last.err = nil

====
